---- MODULE Spec2Model ----
(***************************************************************************)
(* StarBattle solver: the Validator (getSolutionError), the Deduction      *)
(* Engine (getNextStep), the Backtracking Solver (findSolution) and the    *)
(* Region Builder (makeGroups), modelled from the TypeScript sources.      *)
(* Cell indices are 0-based as in the source; arrays of indices are        *)
(* sequences; the cell array is a function on 0..size*size-1.              *)
(***************************************************************************)
EXTENDS Integers, Sequences, FiniteSets, TLC

VARIABLES
    size,                   \* PuzzleData.size
    starCount,              \* PuzzleData.starCount
    horizontalWalls,        \* wall layout the groups were built from
    verticalWalls,
    groups,                 \* PuzzleData.groups (array of index arrays)
    cellIndexToGroupIndex,  \* PuzzleData.cellIndexToGroupIndex
    cells,                  \* PuzzleData.cells, the caller's cell array
    pc,                     \* position of the running call
    work,                   \* the private copy a running call works on
    stack,                  \* findSolution: frames of findSolutionHelper
    guesses,                \* findSolution: the guess stack
    ret,                    \* value returned by the helper frame that just ended
    res,                    \* value returned by findSolution
    nextStep,               \* PuzzleStep returned by the last getNextStep
    error,                  \* PuzzleStep returned by the last getSolutionError
    callConfirmedPartitions,\* confirmedPartitions as the last getNextStep left it
    refs,                   \* which array each reference of findSolution points to
    received,               \* the cells of the PuzzleData as it arrived
    cursor,                 \* lookahead of getNextStep: the cell under trial
    solved,                 \* value returned by the last isSolved
    clusterInput,           \* index array the last partitionCells was given
    clusters                \* clusters the last partitionCells returned

vars == <<size, starCount, horizontalWalls, verticalWalls, groups,
          cellIndexToGroupIndex, cells, pc, work, stack, guesses, ret, res,
          nextStep, error, callConfirmedPartitions, refs, received, cursor, solved,
          clusterInput, clusters>>

(***************************************************************************)
(* Cell states (enum Cell)                                                 *)
(***************************************************************************)
BLANK == 0
STAR == 1
X == 2

\* `undefined`, and the empty object {} (a record with no field)
Undefined == <<>>

(***************************************************************************)
(* Array helpers                                                           *)
(***************************************************************************)
Includes(s, e) == \E k \in DOMAIN s : s[k] = e

Every(s, T(_)) == \A k \in DOMAIN s : T(s[k])

Map(s, F(_)) == [k \in 1..Len(s) |-> F(s[k])]

RECURSIVE Flat(_)
Flat(ss) == IF ss = <<>> THEN <<>> ELSE Head(ss) \o Flat(Tail(ss))

\* Array.prototype.find: the first element passing the test, else undefined;
\* the result is wrapped: <<>> for undefined, <<v>> for the element v
Find(s, T(_)) ==
    LET f == SelectSeq(s, T) IN IF f = <<>> THEN <<>> ELSE <<f[1]>>

\* JavaScript truthiness of the result of find over index arrays:
\* undefined and the number 0 are falsy
Truthy(found) == found # <<>> /\ found[1] # 0

\* Array.from(new Set(s)): distinct elements in order of first occurrence
Uniq(s) ==
    LET firsts == SelectSeq([k \in 1..Len(s) |-> k],
                            LAMBDA k : \A j \in 1..(k - 1) : s[j] # s[k])
    IN [m \in 1..Len(firsts) |-> s[firsts[m]]]

range(start, stop, step) ==
    LET span == stop - 1 - start
    IN IF span < 0 THEN <<>>
       ELSE [k \in 1..((span \div step) + 1) |-> start + (k - 1) * step]

\* Array.prototype.slice(from, to) on a sequence, 0-based, end exclusive
Slice(s, from, to) == SubSeq(s, from + 1, to)

(***************************************************************************)
(* Grid topology                                                           *)
(***************************************************************************)
getCoords(i, n) == [x |-> i % n, y |-> i \div n]

getIndex(x, y, n) == y * n + x

\* faulty variant: the four edge neighbours only, diagonals forgotten
getNeighbouringIndicesEdgeOnly(n, i) ==
    LET c == getCoords(i, n)
        cand == << <<c.x, c.y - 1>>, <<c.x - 1, c.y>>, <<c.x + 1, c.y>>, <<c.x, c.y + 1>> >>
        inside == SelectSeq(cand, LAMBDA p :
                      p[1] >= 0 /\ p[1] < n /\ p[2] >= 0 /\ p[2] < n)
    IN Map(inside, LAMBDA p : getIndex(p[1], p[2], n))

getNeighbouringIndices(n, i) ==
    LET c == getCoords(i, n)
        cand == << <<c.x - 1, c.y - 1>>, <<c.x, c.y - 1>>, <<c.x + 1, c.y - 1>>,
                   <<c.x - 1, c.y>>, <<c.x + 1, c.y>>,
                   <<c.x - 1, c.y + 1>>, <<c.x, c.y + 1>>, <<c.x + 1, c.y + 1>> >>
        inside == SelectSeq(cand, LAMBDA p :
                      p[1] >= 0 /\ p[1] < n /\ p[2] >= 0 /\ p[2] < n)
    IN Map(inside, LAMBDA p : getIndex(p[1], p[2], n))

getAllNeighbouringIndices(n) == [i \in 0..(n * n - 1) |-> getNeighbouringIndices(n, i)]

getRowIndices(n, y) == range(y * n, (y + 1) * n, 1)

getColumnIndices(n, x) == range(x, n * n, n)

Rows(n) == Map(range(0, n, 1), LAMBDA y : getRowIndices(n, y))

Columns(n) == Map(range(0, n, 1), LAMBDA x : getColumnIndices(n, x))

\* the PuzzleData object handed to the library
PuzzleData(c) ==
    [cells |-> c, size |-> size, starCount |-> starCount,
     rows |-> Rows(size), columns |-> Columns(size),
     groups |-> groups, cellIndexToGroupIndex |-> cellIndexToGroupIndex]

(***************************************************************************)
(* Counting                                                                *)
(***************************************************************************)
getCellCount(group, c, cellType) ==
    Len(SelectSeq(group, LAMBDA index : c[index] = cellType))

getStarCount(group, c) == getCellCount(group, c, STAR)

getRemainingStarCount(c, group, starCountPerGroup) ==
    starCountPerGroup - Len(SelectSeq(group, LAMBDA index : c[index] = STAR))

(***************************************************************************)
(* Partitioner                                                             *)
(***************************************************************************)
Abs(v) == IF v < 0 THEN 0 - v ELSE v

\* faulty variant: the cell is compared with the first cell of the group only
withinSquareOfFirst(n, i, group) ==
    LET c == getCoords(i, n)
        o == getCoords(group[1], n)
    IN Abs(c.x - o.x) <= 1 /\ Abs(c.y - o.y) <= 1

\* faulty variant: cells two steps apart count as close
withinSquareWide(n, i, group) ==
    LET c == getCoords(i, n)
    IN Every(group, LAMBDA index :
           LET o == getCoords(index, n)
           IN Abs(c.x - o.x) <= 2 /\ Abs(c.y - o.y) <= 2)

withinSquare(n, i, group) ==
    LET c == getCoords(i, n)
    IN Every(group, LAMBDA index :
           LET o == getCoords(index, n)
           IN Abs(c.x - o.x) <= 1 /\ Abs(c.y - o.y) <= 1)

\* faulty variant: a cell joins the last cluster it fits into
RECURSIVE partitionCellsLastFit(_, _)
partitionCellsLastFit(n, indices) ==
    IF indices = <<>> THEN <<>>
    ELSE LET partitions == partitionCellsLastFit(n, SubSeq(indices, 1, Len(indices) - 1))
             i == indices[Len(indices)]
             fits == {k \in DOMAIN partitions : withinSquare(n, i, partitions[k])}
         IN IF fits = {} THEN Append(partitions, <<i>>)
            ELSE LET k == CHOOSE k \in fits : \A j \in fits : k >= j
                 IN [partitions EXCEPT ![k] = Append(@, i)]

RECURSIVE partitionCells(_, _)
partitionCells(n, indices) ==
    IF indices = <<>> THEN <<>>
    ELSE LET partitions == partitionCells(n, SubSeq(indices, 1, Len(indices) - 1))
             i == indices[Len(indices)]
             fits == {k \in DOMAIN partitions : withinSquare(n, i, partitions[k])}
         IN IF fits = {} THEN Append(partitions, <<i>>)
            ELSE LET k == CHOOSE k \in fits : \A j \in fits : k <= j
                 IN [partitions EXCEPT ![k] = Append(@, i)]

(***************************************************************************)
(* Validator                                                               *)
(***************************************************************************)
CellIndices(n) == range(0, n * n, 1)

\* first value of a sequence of optional results that is not undefined
FirstDefined(results) ==
    LET d == SelectSeq(results, LAMBDA r : r # Undefined)
    IN IF d = <<>> THEN Undefined ELSE d[1]

\* faulty variant: a partition may hold one Star too many
processTooManyStarsRuleOffByOne(pd, targetGroups, name) ==
    LET hit == SelectSeq(targetGroups, LAMBDA group :
                   getStarCount(group, pd.cells) > pd.starCount + 1)
    IN IF hit = <<>> THEN Undefined
       ELSE [indices |-> hit[1],
             message |-> "This " \o name \o " contains too many stars."]

processTooManyStarsRule(pd, targetGroups, name) ==
    LET hit == SelectSeq(targetGroups, LAMBDA group :
                   getStarCount(group, pd.cells) > pd.starCount)
    IN IF hit = <<>> THEN Undefined
       ELSE [indices |-> hit[1],
             message |-> "This " \o name \o " contains too many stars."]

\* faulty variant: one missing Blank cell is tolerated
processNotEnoughSpacesRuleSlack(pd, targetGroups, name) ==
    LET hit == SelectSeq(targetGroups, LAMBDA group :
                   pd.starCount - getStarCount(group, pd.cells)
                       > getCellCount(group, pd.cells, BLANK) + 1)
    IN IF hit = <<>> THEN Undefined
       ELSE [indices |-> hit[1],
             message |-> "This " \o name \o " contains too few blank spaces."]

processNotEnoughSpacesRule(pd, targetGroups, name) ==
    LET hit == SelectSeq(targetGroups, LAMBDA group :
                   pd.starCount - getStarCount(group, pd.cells)
                       > getCellCount(group, pd.cells, BLANK))
    IN IF hit = <<>> THEN Undefined
       ELSE [indices |-> hit[1],
             message |-> "This " \o name \o " contains too few blank spaces."]

\* faulty variant: the star counts are checked before the adjacency
findSimpleErrorCountsFirst(pd) ==
    LET starNeighbour(i) ==
            Find(getNeighbouringIndices(pd.size, i), LAMBDA index : pd.cells[index] = STAR)
        clash == SelectSeq(CellIndices(pd.size), LAMBDA i :
                     pd.cells[i] = STAR /\ starNeighbour(i) # <<>>)
        tooMany == FirstDefined(<<
                       processTooManyStarsRule(pd, pd.rows, "row"),
                       processTooManyStarsRule(pd, pd.columns, "column"),
                       processTooManyStarsRule(pd, pd.groups, "group") >>)
    IN IF tooMany # Undefined THEN tooMany
       ELSE IF clash # <<>>
       THEN [indices |-> <<clash[1], starNeighbour(clash[1])[1]>>,
             message |-> "Stars cannot be next to each other."]
       ELSE FirstDefined(<<
                processNotEnoughSpacesRule(pd, pd.rows, "row"),
                processNotEnoughSpacesRule(pd, pd.columns, "column"),
                processNotEnoughSpacesRule(pd, pd.groups, "group") >>)

findSimpleError(pd) ==
    LET starNeighbour(i) ==
            Find(getNeighbouringIndices(pd.size, i), LAMBDA index : pd.cells[index] = STAR)
        clash == SelectSeq(CellIndices(pd.size), LAMBDA i :
                     pd.cells[i] = STAR /\ starNeighbour(i) # <<>>)
    IN IF clash # <<>>
       THEN [indices |-> <<clash[1], starNeighbour(clash[1])[1]>>,
             message |-> "Stars cannot be next to each other."]
       ELSE FirstDefined(<<
                processTooManyStarsRule(pd, pd.rows, "row"),
                processTooManyStarsRule(pd, pd.columns, "column"),
                processTooManyStarsRule(pd, pd.groups, "group"),
                processNotEnoughSpacesRule(pd, pd.rows, "row"),
                processNotEnoughSpacesRule(pd, pd.columns, "column"),
                processNotEnoughSpacesRule(pd, pd.groups, "group") >>)

getSolutionError(pd) ==
    LET err == findSimpleError(pd)
    IN IF err # Undefined THEN err ELSE Undefined

HasMessage(step) == "message" \in DOMAIN step

(***************************************************************************)
(* isSolved                                                                *)
(***************************************************************************)
\* faulty variant: the star count of the rows is not checked
isSolvedIgnoringRows(pd) ==
    /\ \A i \in 0..(pd.size * pd.size - 1) :
           pd.cells[i] = STAR =>
               ~Truthy(Find(getNeighbouringIndices(pd.size, i),
                            LAMBDA neighbour : pd.cells[neighbour] = STAR))
    /\ Every(pd.columns, LAMBDA column : getStarCount(column, pd.cells) = pd.starCount)
    /\ Every(pd.groups, LAMBDA group : getStarCount(group, pd.cells) = pd.starCount)

\* faulty variant: Stars that touch are not looked for
isSolvedIgnoringNeighbours(pd) ==
    /\ Every(pd.rows, LAMBDA row : getStarCount(row, pd.cells) = pd.starCount)
    /\ Every(pd.columns, LAMBDA column : getStarCount(column, pd.cells) = pd.starCount)
    /\ Every(pd.groups, LAMBDA group : getStarCount(group, pd.cells) = pd.starCount)

\* faulty variant: the star count of the columns is not checked
isSolvedIgnoringColumns(pd) ==
    /\ \A i \in 0..(pd.size * pd.size - 1) :
           pd.cells[i] = STAR =>
               ~Truthy(Find(getNeighbouringIndices(pd.size, i),
                            LAMBDA neighbour : pd.cells[neighbour] = STAR))
    /\ Every(pd.rows, LAMBDA row : getStarCount(row, pd.cells) = pd.starCount)
    /\ Every(pd.groups, LAMBDA group : getStarCount(group, pd.cells) = pd.starCount)

isSolved(pd) ==
    /\ \A i \in 0..(pd.size * pd.size - 1) :
           pd.cells[i] = STAR =>
               ~Truthy(Find(getNeighbouringIndices(pd.size, i),
                            LAMBDA neighbour : pd.cells[neighbour] = STAR))
    /\ Every(pd.rows, LAMBDA row : getStarCount(row, pd.cells) = pd.starCount)
    /\ Every(pd.columns, LAMBDA column : getStarCount(column, pd.cells) = pd.starCount)
    /\ Every(pd.groups, LAMBDA group : getStarCount(group, pd.cells) = pd.starCount)

(***************************************************************************)
(* Deduction Engine: messages of the rules                                 *)
(***************************************************************************)
LastSpacesMessage(name) ==
    "The remaining stars in this " \o name \o " can only be placed here."

AdjacencyMessage ==
    "Stars cannot be placed in cells neighbouring a star (including diagonals)."

NoStarsLeftMessage(name) == "No more stars can be placed in this " \o name \o "."

IsolatedGroupMessage ==
    "A star cannot be placed here. Otherwise, not enough stars can be placed within this group."

NoCrowdingMessage(name) ==
    "A star cannot be placed here. Otherwise the indicated " \o name
        \o " will not have enough room for stars."

\* the template literal of processBlockRule, white space normalised
BlockBaseMessage(name, multipleGroup, multipleLeft, remainingStarCount) ==
    "There can be at most 1 star in each 2x2 block. When the remaining space within "
        \o (IF multipleGroup THEN "these" ELSE "this") \o " " \o name
        \o (IF multipleGroup THEN "s" ELSE "")
        \o " is split into blocks at most 2x2 in size, there "
        \o (IF multipleLeft THEN "are" ELSE "is") \o " only "
        \o ToString(remainingStarCount) \o " block"
        \o (IF multipleLeft THEN "s" ELSE "")
        \o ", which is equal to the number of remaining stars."
        \o " Therefore, each block must contain a star."

BlockStarSuffix == " This block only has one space, so it must be a star."

BlockSharedSuffix ==
    " If stars are placed here, there will be no place to put a star in this block."

FillLinesMessage(name, lineCount) ==
    LET groupsText == IF lineCount > 1 THEN "these groups" ELSE "this group"
        linesText == IF lineCount > 1 THEN "these " \o name \o "s" ELSE "this " \o name
    IN "Stars cannot be placed in " \o groupsText \o " outside " \o linesText
           \o ". Otherwise, there will not be enough stars in " \o linesText \o "."

ConfirmedBlockMessage(name, multipleGroup) ==
    "There can be at most 1 star in each 2x2 block. The indicated block is confirmed"
        \o " to have a star from splitting some columns, rows, or groups into blocks,"
        \o " so we can exclude the spaces within "
        \o (IF multipleGroup THEN "these" ELSE "this") \o " " \o name
        \o (IF multipleGroup THEN "s" ELSE "") \o " outside the block ."

LookaheadMessage ==
    "A star cannot be placed here. Otherwise, a rule violation will eventually occur."

(***************************************************************************)
(* Deduction Engine: helpers of getNextStep                                *)
(***************************************************************************)
GroupOf(pd, i) == pd.groups[pd.cellIndexToGroupIndex[i] + 1]

\* faulty variant: the Stars around the cell are not looked at
starCanBePlacedAmongStars(pd, i) ==
    /\ pd.cells[i] = BLANK
    /\ getRemainingStarCount(pd.cells, GroupOf(pd, i), pd.starCount) # 0
    /\ getRemainingStarCount(pd.cells, pd.rows[getCoords(i, pd.size).y + 1], pd.starCount) # 0
    /\ getRemainingStarCount(pd.cells, pd.columns[getCoords(i, pd.size).x + 1], pd.starCount) # 0

starCanBePlaced(pd, i) ==
    /\ pd.cells[i] = BLANK
    /\ ~\E k \in DOMAIN getNeighbouringIndices(pd.size, i) :
           pd.cells[getNeighbouringIndices(pd.size, i)[k]] = STAR
    /\ getRemainingStarCount(pd.cells, GroupOf(pd, i), pd.starCount) # 0
    /\ getRemainingStarCount(pd.cells, pd.rows[getCoords(i, pd.size).y + 1], pd.starCount) # 0
    /\ getRemainingStarCount(pd.cells, pd.columns[getCoords(i, pd.size).x + 1], pd.starCount) # 0

starsCanBePlaced(pd, indices) ==
    Every(indices, LAMBDA i :
        /\ starCanBePlaced(pd, i)
        /\ ~\E k \in DOMAIN getNeighbouringIndices(pd.size, i) :
               Includes(indices, getNeighbouringIndices(pd.size, i)[k]))

getSharedNeighbour(pd, indices) ==
    SelectSeq(getNeighbouringIndices(pd.size, indices[1]), LAMBDA index :
        \A k \in 2..Len(indices) :
            Includes(getNeighbouringIndices(pd.size, indices[k]), index))

findNeighbouringGroup(pd, i) ==
    LET neighbours == getNeighbouringIndices(pd.size, i)
        blanks == Map(pd.groups, LAMBDA group :
                      SelectSeq(group, LAMBDA index : pd.cells[index] = BLANK))
        hit == SelectSeq(blanks, LAMBDA group :
                   Len(group) # 0 /\ Every(group, LAMBDA index : Includes(neighbours, index)))
    IN IF hit = <<>> THEN Undefined ELSE hit[1]

\* faulty variant: one group more than targetCount is let through
findSharedGroupsOneMore(pd, indices, targetCount) ==
    LET found == Uniq(Map(indices, LAMBDA index : pd.cellIndexToGroupIndex[index]))
    IN IF Len(found) > targetCount + 1 THEN Undefined ELSE <<found>>

findSharedGroups(pd, indices, targetCount) ==
    LET found == Uniq(Map(indices, LAMBDA index : pd.cellIndexToGroupIndex[index]))
    IN IF Len(found) > targetCount THEN Undefined ELSE <<found>>

\* faulty variant: fills the Blank cells of a partition that has more Blank
\* cells than it needs Stars
processLastSpacesRuleAtLeast(pd, targetGroups, name) ==
    LET blanksOf(group) == SelectSeq(group, LAMBDA index : pd.cells[index] = BLANK)
        hit == SelectSeq(targetGroups, LAMBDA group :
                   /\ Len(blanksOf(group)) # 0
                   /\ starsCanBePlaced(pd, blanksOf(group))
                   /\ getRemainingStarCount(pd.cells, group, pd.starCount)
                          <= Len(blanksOf(group)))
    IN IF hit = <<>> THEN Undefined
       ELSE [indices |-> blanksOf(hit[1]), type |-> STAR,
             message |-> LastSpacesMessage(name)]

processLastSpacesRule(pd, targetGroups, name) ==
    LET blanksOf(group) == SelectSeq(group, LAMBDA index : pd.cells[index] = BLANK)
        hit == SelectSeq(targetGroups, LAMBDA group :
                   /\ Len(blanksOf(group)) # 0
                   /\ starsCanBePlaced(pd, blanksOf(group))
                   /\ getRemainingStarCount(pd.cells, group, pd.starCount)
                          = Len(blanksOf(group)))
    IN IF hit = <<>> THEN Undefined
       ELSE [indices |-> blanksOf(hit[1]), type |-> STAR,
             message |-> LastSpacesMessage(name)]

processNoStarsLeftRule(pd, targetGroups, name) ==
    LET blanksOf(group) == SelectSeq(group, LAMBDA index : pd.cells[index] = BLANK)
        hit == SelectSeq(targetGroups, LAMBDA group :
                   /\ getRemainingStarCount(pd.cells, group, pd.starCount) = 0
                   /\ Len(blanksOf(group)) # 0)
    IN IF hit = <<>> THEN Undefined
       ELSE [indices |-> blanksOf(hit[1]), type |-> X,
             message |-> NoStarsLeftMessage(name)]

processGroupsFillLinesRule(pd, lines, name) ==
    LET lineIndices == SelectSeq(Flat(lines), LAMBDA index : pd.cells[index] # X)
        groupIndices == findSharedGroups(pd, lineIndices, Len(lines))
    IN IF groupIndices = Undefined THEN Undefined
       ELSE LET indices ==
                    SelectSeq(Flat(Map(groupIndices[1], LAMBDA groupIndex :
                                       pd.groups[groupIndex + 1])),
                              LAMBDA index :
                                  ~Includes(lineIndices, index) /\ pd.cells[index] # X)
            IN IF Len(indices) = 0 THEN Undefined
               ELSE [indices |-> indices, otherIndices |-> lineIndices, type |-> X,
                     message |-> FillLinesMessage(name, Len(lines))]

processNoCrowdingRule(pd, i, neighbours, relevantGroups, name) ==
    LET hit == SelectSeq(relevantGroups, LAMBDA group :
                   LET remainingGroup == SelectSeq(group, LAMBDA index :
                           pd.cells[index] = BLANK /\ ~Includes(neighbours, index))
                       partitions == partitionCells(pd.size, remainingGroup)
                   IN ~(Len(partitions)
                            >= getRemainingStarCount(pd.cells, group, pd.starCount)))
    IN IF hit = <<>> THEN Undefined
       ELSE [indices |-> <<i>>, otherIndices |-> hit[1], type |-> X,
             message |-> NoCrowdingMessage(name)]

addConfirmedPartition(confirmedPartitions, partitionToAdd) ==
    LET subsets == {k \in DOMAIN confirmedPartitions :
                       /\ Len(confirmedPartitions[k]) <= Len(partitionToAdd)
                       /\ Every(confirmedPartitions[k], LAMBDA index :
                                    Includes(partitionToAdd, index))}
        supersets == {k \in DOMAIN confirmedPartitions :
                       /\ Len(confirmedPartitions[k]) > Len(partitionToAdd)
                       /\ Every(partitionToAdd, LAMBDA index :
                                    Includes(confirmedPartitions[k], index))}
    IN IF subsets # {} THEN confirmedPartitions
       ELSE IF supersets # {}
            THEN [confirmedPartitions EXCEPT
                      ![CHOOSE k \in supersets : \A j \in supersets : k <= j] = partitionToAdd]
            ELSE Append(confirmedPartitions, partitionToAdd)

RECURSIVE addConfirmedPartitions(_, _)
addConfirmedPartitions(confirmedPartitions, partitions) ==
    IF partitions = <<>> THEN confirmedPartitions
    ELSE addConfirmedPartitions(
             addConfirmedPartition(confirmedPartitions, Head(partitions)),
             Tail(partitions))

\* the step processBlockRule derives from one cluster of a fitting target
BlockStep(pd, partition, target, blankGroup, baseMessage) ==
    IF Len(partition) = 1 /\ starCanBePlaced(pd, partition[1])
    THEN [indices |-> partition, otherIndices |-> target, type |-> STAR,
          message |-> baseMessage \o BlockStarSuffix]
    ELSE LET indices == SelectSeq(getSharedNeighbour(pd, partition),
                                  LAMBDA index : pd.cells[index] # X)
         IN IF Len(indices) = 0 THEN Undefined
            ELSE [indices |-> indices, otherIndices |-> blankGroup, type |-> X,
                  message |-> baseMessage \o BlockSharedSuffix]

\* returns the step (or undefined) and the confirmedPartitions array as the
\* call leaves it
RECURSIVE processBlockRule(_, _, _, _, _)
processBlockRule(pd, targets, name, starCountPerTarget, confirmedPartitions) ==
    IF targets = <<>>
    THEN [step |-> Undefined, confirmedPartitions |-> confirmedPartitions]
    ELSE LET target == Head(targets)
             blankGroup == SelectSeq(target, LAMBDA index : pd.cells[index] = BLANK)
             partitions == partitionCells(pd.size, blankGroup)
             remainingStarCount ==
                 getRemainingStarCount(pd.cells, target, starCountPerTarget)
         IN IF Len(partitions) # remainingStarCount
            THEN processBlockRule(pd, Tail(targets), name, starCountPerTarget,
                                  confirmedPartitions)
            ELSE LET confirmed == addConfirmedPartitions(confirmedPartitions, partitions)
                     baseMessage == BlockBaseMessage(name,
                                        starCountPerTarget > pd.starCount,
                                        remainingStarCount > 1, remainingStarCount)
                     found == FirstDefined(Map(partitions, LAMBDA partition :
                                  BlockStep(pd, partition, target, blankGroup, baseMessage)))
                 IN IF found # Undefined
                    THEN [step |-> found, confirmedPartitions |-> confirmed]
                    ELSE processBlockRule(pd, Tail(targets), name, starCountPerTarget,
                                          confirmed)

processConfirmedBlockRule(pd, targetGroups, name, starCountPerGroup, confirmedPartitions) ==
    LET blanksOf(group) == SelectSeq(group, LAMBDA index : pd.cells[index] = BLANK)
        matchOf(group) == Find(confirmedPartitions, LAMBDA partition :
                              Every(partition, LAMBDA index : Includes(group, index)))
        indicesOf(group) == SelectSeq(blanksOf(group), LAMBDA index :
                                ~Includes(matchOf(group)[1], index))
        hit == SelectSeq(targetGroups, LAMBDA group :
                   /\ getRemainingStarCount(pd.cells, group, starCountPerGroup) = 1
                   /\ matchOf(group) # <<>>
                   /\ Len(indicesOf(group)) # 0)
    IN IF hit = <<>> THEN Undefined
       ELSE [indices |-> indicesOf(hit[1]), otherIndices |-> blanksOf(hit[1]),
             type |-> X,
             message |-> ConfirmedBlockMessage(name, starCountPerGroup > pd.starCount)]

\* faulty variant: a targeted cell that is not Blank is cleared
applyNextStepClearing(c, step) ==
    IF \/ ~("indices" \in DOMAIN step)
       \/ ~("type" \in DOMAIN step)
    THEN Undefined
    ELSE IF Len(step.indices) = 0 THEN Undefined
    ELSE [i \in DOMAIN c |->
             IF Includes(step.indices, i)
             THEN IF c[i] = BLANK THEN step.type ELSE BLANK
             ELSE c[i]]

applyNextStep(c, step) ==
    IF \/ ~("indices" \in DOMAIN step)
       \/ ~("type" \in DOMAIN step)
    THEN Undefined
    ELSE IF Len(step.indices) = 0 THEN Undefined
    ELSE [i \in DOMAIN c |-> IF Includes(step.indices, i) THEN step.type ELSE c[i]]

(***************************************************************************)
(* Deduction Engine: getNextStep, and the saturation loop applyNextSteps   *)
(***************************************************************************)
\* faulty variant: the array is shared by all calls, each call starts from
\* what the call before it left
SharedConfirmedPartitions == callConfirmedPartitions

\* const confirmedPartitions: number[][] = []  -- a fresh array for every call
NewConfirmedPartitions == <<>>

RECURSIVE getNextStepCall(_, _, _)
RECURSIVE applyNextStepsLoop(_, _, _)
RECURSIVE applyNextStepsApply(_, _, _, _)

\* if (nextStep) return nextStep -- otherwise the rules that follow are tried
OrElse(step, otherwise) == IF step # Undefined THEN step ELSE otherwise

\* the same test on the result of processBlockRule, which carries the
\* confirmedPartitions array along; otherwise(_) receives the array
BlockOrElse(result, otherwise(_)) ==
    IF result.step # Undefined THEN result ELSE otherwise(result.confirmedPartitions)

\* lines 255-260: Last-Spaces over groups, rows, columns
\* faulty variant: rows, then columns, then groups
lastSpacesRuleRowsFirst(pd) ==
    OrElse(processLastSpacesRule(pd, pd.rows, "row"),
           OrElse(processLastSpacesRule(pd, pd.columns, "column"),
                  processLastSpacesRule(pd, pd.groups, "group")))

lastSpacesRule(pd) ==
    OrElse(processLastSpacesRule(pd, pd.groups, "group"),
           OrElse(processLastSpacesRule(pd, pd.rows, "row"),
                  processLastSpacesRule(pd, pd.columns, "column")))

\* lines 262-272: Adjacency-Exclusion
adjacencyRule(pd) ==
    LET open(i) == SelectSeq(getNeighbouringIndices(pd.size, i),
                             LAMBDA index : pd.cells[index] # X)
        hit == SelectSeq(CellIndices(pd.size), LAMBDA i :
                   pd.cells[i] = STAR /\ Len(open(i)) # 0)
    IN IF hit = <<>> THEN Undefined
       ELSE [indices |-> open(hit[1]), type |-> X, message |-> AdjacencyMessage]

\* lines 274-279: No-Stars-Left over groups, rows, columns
noStarsLeftRule(pd) ==
    OrElse(processNoStarsLeftRule(pd, pd.groups, "group"),
           OrElse(processNoStarsLeftRule(pd, pd.rows, "row"),
                  processNoStarsLeftRule(pd, pd.columns, "column")))

\* lines 281-291: Isolated-Group-Exclusion
isolatedGroupRule(pd) ==
    LET hit == SelectSeq(CellIndices(pd.size), LAMBDA i :
                   pd.cells[i] # X /\ findNeighbouringGroup(pd, i) # Undefined)
    IN IF hit = <<>> THEN Undefined
       ELSE [indices |-> <<hit[1]>>,
             otherIndices |-> findNeighbouringGroup(pd, hit[1]),
             type |-> X, message |-> IsolatedGroupMessage]

\* lines 293-309: No-Crowding, the body of the loop for the Blank cell i
noCrowdingAt(pd, i) ==
    LET n == pd.size
        neighbours == SelectSeq(getNeighbouringIndices(n, i),
                                LAMBDA index : pd.cells[index] = BLANK)
        relevantGroups ==
            Map(Uniq(Map(neighbours, LAMBDA index : pd.cellIndexToGroupIndex[index])),
                LAMBDA index : pd.groups[index + 1])
        relevantRows ==
            Map(Uniq(Map(neighbours, LAMBDA index : getCoords(index, n).y)),
                LAMBDA index : pd.rows[index + 1])
        relevantColumns ==
            Map(Uniq(Map(neighbours, LAMBDA index : getCoords(index, n).x)),
                LAMBDA index : pd.columns[index + 1])
    IN OrElse(processNoCrowdingRule(pd, i, neighbours, relevantGroups, "group"),
              OrElse(processNoCrowdingRule(pd, i, neighbours, relevantRows, "row"),
                     processNoCrowdingRule(pd, i, neighbours, relevantColumns, "column")))

noCrowdingRule(pd) ==
    FirstDefined(Map(CellIndices(pd.size), LAMBDA i :
        IF pd.cells[i] = BLANK THEN noCrowdingAt(pd, i) ELSE Undefined))

\* lines 310-315: Block-Exact-Fit over groups, rows, columns
blockRule(pd, confirmedPartitions) ==
    BlockOrElse(
        processBlockRule(pd, pd.groups, "group", pd.starCount, confirmedPartitions),
        LAMBDA afterGroups : BlockOrElse(
            processBlockRule(pd, pd.rows, "row", pd.starCount, afterGroups),
            LAMBDA afterRows :
                processBlockRule(pd, pd.columns, "column", pd.starCount, afterRows)))

\* lines 316-324: Fill-Lines over windows of 1..size-1 rows, columns
fillLinesRule(pd) ==
    LET n == pd.size
    IN FirstDefined(
           Flat(Map(range(1, n, 1), LAMBDA lineCount :
               Flat(Map(range(0, n - lineCount + 1, 1), LAMBDA start :
                   << processGroupsFillLinesRule(pd,
                          Slice(pd.rows, start, start + lineCount), "row"),
                      processGroupsFillLinesRule(pd,
                          Slice(pd.columns, start, start + lineCount), "column")
                   >>)))))

twoRowGroups(pd) ==
    Map(range(0, pd.size - 2 + 1, 1), LAMBDA start : Flat(Slice(pd.rows, start, start + 2)))

twoColumnGroups(pd) ==
    Map(range(0, pd.size - 2 + 1, 1), LAMBDA start :
            Flat(Slice(pd.columns, start, start + 2)))

\* lines 325-330: Block-Exact-Fit over 2-row windows, 2-column windows
windowBlockRule(pd, confirmedPartitions) ==
    BlockOrElse(
        processBlockRule(pd, twoRowGroups(pd), "row", 2 * pd.starCount,
                         confirmedPartitions),
        LAMBDA afterRows :
            processBlockRule(pd, twoColumnGroups(pd), "column", 2 * pd.starCount,
                             afterRows))

\* lines 331-336: Confirmed-Block-Exclusion over 2-row windows, 2-column
\* windows, groups
confirmedBlockRule(pd, confirmedPartitions) ==
    OrElse(processConfirmedBlockRule(pd, twoRowGroups(pd), "row", 2 * pd.starCount,
                                     confirmedPartitions),
           OrElse(processConfirmedBlockRule(pd, twoColumnGroups(pd), "column",
                                            2 * pd.starCount, confirmedPartitions),
                  processConfirmedBlockRule(pd, pd.groups, "group",
                                            2 * pd.starCount, confirmedPartitions)))

\* lines 340-354: lookahead, enabled when maxGuesses > 0
lookaheadRule(pd, maxGuesses) ==
    IF maxGuesses > 0
    THEN LET hit == SelectSeq(CellIndices(pd.size), LAMBDA i :
                 /\ pd.cells[i] = BLANK
                 /\ applyNextStepsLoop([pd EXCEPT !.cells[i] = STAR],
                                       maxGuesses - 1, 0).error # Undefined)
         IN IF hit = <<>> THEN Undefined
            ELSE [indices |-> <<hit[1]>>, type |-> X, message |-> LookaheadMessage]
    ELSE Undefined

\* faulty variant: Block-Exact-Fit over groups, rows, columns is tried first
getNextStepCallBlockFirst(pd, maxGuesses, confirmedPartitions0) ==
    LET done(step, confirmed) == [step |-> step, confirmedPartitions |-> confirmed]
        lastSpaces == lastSpacesRule(pd)
        adjacency == adjacencyRule(pd)
        noStarsLeft == noStarsLeftRule(pd)
        isolated == isolatedGroupRule(pd)
        noCrowding == noCrowdingRule(pd)
        block == blockRule(pd, confirmedPartitions0)
        fillLines == fillLinesRule(pd)
        windowBlock == windowBlockRule(pd, block.confirmedPartitions)
        confirmed == windowBlock.confirmedPartitions
        confirmedBlock == confirmedBlockRule(pd, confirmed)
        lookahead == lookaheadRule(pd, maxGuesses)
    IN IF block.step # Undefined THEN block
       ELSE IF lastSpaces # Undefined THEN done(lastSpaces, confirmedPartitions0)
       ELSE IF adjacency # Undefined THEN done(adjacency, confirmedPartitions0)
       ELSE IF noStarsLeft # Undefined THEN done(noStarsLeft, confirmedPartitions0)
       ELSE IF isolated # Undefined THEN done(isolated, confirmedPartitions0)
       ELSE IF noCrowding # Undefined THEN done(noCrowding, confirmedPartitions0)
       ELSE IF fillLines # Undefined THEN done(fillLines, block.confirmedPartitions)
       ELSE IF windowBlock.step # Undefined THEN windowBlock
       ELSE IF confirmedBlock # Undefined THEN done(confirmedBlock, confirmed)
       ELSE IF lookahead # Undefined THEN done(lookahead, confirmed)
       ELSE done([message |-> "Unknown"], confirmed)

\* faulty variant: Block-Exact-Fit over the 2-row and 2-column windows is
\* tried before Fill-Lines
getNextStepCallWindowsFirst(pd, maxGuesses, confirmedPartitions0) ==
    LET done(step, confirmed) == [step |-> step, confirmedPartitions |-> confirmed]
        lastSpaces == lastSpacesRule(pd)
        adjacency == adjacencyRule(pd)
        noStarsLeft == noStarsLeftRule(pd)
        isolated == isolatedGroupRule(pd)
        noCrowding == noCrowdingRule(pd)
        block == blockRule(pd, confirmedPartitions0)
        fillLines == fillLinesRule(pd)
        windowBlock == windowBlockRule(pd, block.confirmedPartitions)
        confirmed == windowBlock.confirmedPartitions
        confirmedBlock == confirmedBlockRule(pd, confirmed)
        lookahead == lookaheadRule(pd, maxGuesses)
    IN IF lastSpaces # Undefined THEN done(lastSpaces, confirmedPartitions0)
       ELSE IF adjacency # Undefined THEN done(adjacency, confirmedPartitions0)
       ELSE IF noStarsLeft # Undefined THEN done(noStarsLeft, confirmedPartitions0)
       ELSE IF isolated # Undefined THEN done(isolated, confirmedPartitions0)
       ELSE IF noCrowding # Undefined THEN done(noCrowding, confirmedPartitions0)
       ELSE IF block.step # Undefined THEN block
       ELSE IF windowBlock.step # Undefined THEN windowBlock
       ELSE IF fillLines # Undefined THEN done(fillLines, confirmed)
       ELSE IF confirmedBlock # Undefined THEN done(confirmedBlock, confirmed)
       ELSE IF lookahead # Undefined THEN done(lookahead, confirmed)
       ELSE done([message |-> "Unknown"], confirmed)

\* the body of getNextStep, given the confirmedPartitions array it starts
\* with; returns the step and the array as the call leaves it
\* a step found by a rule that leaves confirmedPartitions as it is
StepOrElse(found, confirmedPartitions, otherwise) ==
    IF found # Undefined
    THEN [step |-> found, confirmedPartitions |-> confirmedPartitions]
    ELSE otherwise

\* lines 316-355, after Block-Exact-Fit over groups, rows and columns found
\* no step
fromFillLines(pd, maxGuesses, confirmedPartitions) ==
    StepOrElse(fillLinesRule(pd), confirmedPartitions,
        BlockOrElse(windowBlockRule(pd, confirmedPartitions), LAMBDA confirmed :
            StepOrElse(confirmedBlockRule(pd, confirmed), confirmed,
            StepOrElse(lookaheadRule(pd, maxGuesses), confirmed,
                [step |-> [message |-> "Unknown"], confirmedPartitions |-> confirmed]))))

getNextStepCall(pd, maxGuesses, confirmedPartitions0) ==
    StepOrElse(lastSpacesRule(pd), confirmedPartitions0,
    StepOrElse(adjacencyRule(pd), confirmedPartitions0,
    StepOrElse(noStarsLeftRule(pd), confirmedPartitions0,
    StepOrElse(isolatedGroupRule(pd), confirmedPartitions0,
    StepOrElse(noCrowdingRule(pd), confirmedPartitions0,
        BlockOrElse(blockRule(pd, confirmedPartitions0), LAMBDA confirmed :
            fromFillLines(pd, maxGuesses, confirmed)))))))

getNextStep(pd, maxGuesses) ==
    getNextStepCall(pd, maxGuesses, NewConfirmedPartitions).step

\* the while (true) loop of applyNextSteps on the copy pd.cells; returns the
\* error (or undefined), the copy as the loop leaves it and the number of
\* steps applied
applyNextStepsLoop(pd, maxGuesses, applied) ==
    applyNextStepsApply(pd, maxGuesses, applied,
                        applyNextStep(pd.cells, getNextStep(pd, maxGuesses)))

\* lines 147-153: the step is applied to the copy and the copy is validated;
\* newCells is undefined when the step has no indices to apply
applyNextStepsApply(pd, maxGuesses, applied, newCells) ==
    IF newCells = Undefined
    THEN [error |-> Undefined, cells |-> pd.cells, applied |-> applied]
    ELSE IF HasMessage(getSolutionError([pd EXCEPT !.cells = newCells]))
         THEN [error |-> getSolutionError([pd EXCEPT !.cells = newCells]),
               cells |-> newCells, applied |-> applied + 1]
         ELSE applyNextStepsLoop([pd EXCEPT !.cells = newCells], maxGuesses,
                                 applied + 1)

\* applyNextSteps copies puzzleData.cells, runs the loop on the copy and
\* restores puzzleData.cells in its finally block
applyNextSteps(pd, maxGuesses) == applyNextStepsLoop(pd, maxGuesses, 0)

(***************************************************************************)
(* Region Builder: makeGroups                                              *)
(* The Set of group arrays is the sequence groupsSet of array identities   *)
(* (insertion order); arrays[g] is the content of array g; indexToGroup[i] *)
(* is the array cell i maps to, 0 while the Map has no entry for i.        *)
(***************************************************************************)
\* faulty variant: no wall is ever seen
noWallExists(n, walls, x, y) == FALSE

horizontalWallExists(n, walls, x, y) ==
    IF x < 0 \/ x >= n \/ y < 0 \/ y >= n - 1 THEN FALSE
    ELSE walls[getIndex(x, y, n)]

verticalWallExists(n, walls, x, y) ==
    IF x < 0 \/ x >= n - 1 \/ y < 0 \/ y >= n THEN FALSE
    ELSE walls[getIndex(x, y, n - 1)]

setGroup(st, index, group) ==
    [st EXCEPT !.arrays[group] = Append(@, index), !.indexToGroup[index] = group]

RECURSIVE setGroupAll(_, _, _)
setGroupAll(st, indices, group) ==
    IF indices = <<>> THEN st
    ELSE setGroupAll(setGroup(st, Head(indices), group), Tail(indices), group)

\* faulty variant: the merged group stays in groupsSet
updateNeighbourKeepsGroup(st, currIndex, neighbourIndex) ==
    LET currGroup == st.indexToGroup[currIndex]
        rightGroup == st.indexToGroup[neighbourIndex]
    IN IF rightGroup # 0
       THEN IF currGroup # rightGroup
            THEN setGroupAll(st, st.arrays[rightGroup], currGroup)
            ELSE st
       ELSE setGroup(st, neighbourIndex, currGroup)

updateNeighbour(st, currIndex, neighbourIndex) ==
    LET currGroup == st.indexToGroup[currIndex]
        rightGroup == st.indexToGroup[neighbourIndex]
    IN IF rightGroup # 0
       THEN IF currGroup # rightGroup
            THEN [setGroupAll(st, st.arrays[rightGroup], currGroup) EXCEPT
                      !.groupsSet = SelectSeq(@, LAMBDA g : g # rightGroup)]
            ELSE st
       ELSE setGroup(st, neighbourIndex, currGroup)

\* lines 212-214: a cell without a group starts a new one
newGroup(st, i) ==
    setGroup([st EXCEPT !.arrays = Append(@, <<>>),
                        !.groupsSet = Append(@, Len(st.arrays) + 1)],
             i, Len(st.arrays) + 1)

\* lines 216-223: the right and the lower neighbour of cell i
makeGroupsVisit(n, hWalls, vWalls, st1, i) ==
    LET c == getCoords(i, n)
        st2 == IF c.x < n - 1 /\ ~verticalWallExists(n, vWalls, c.x, c.y)
               THEN updateNeighbour(st1, i, getIndex(c.x + 1, c.y, n))
               ELSE st1
    IN IF c.y < n - 1 /\ ~horizontalWallExists(n, hWalls, c.x, c.y)
       THEN updateNeighbour(st2, i, getIndex(c.x, c.y + 1, n))
       ELSE st2

\* lines 210-223: one pass of the loop, for cell i
makeGroupsStep(n, hWalls, vWalls, st, i) ==
    IF st.indexToGroup[i] = 0
    THEN makeGroupsVisit(n, hWalls, vWalls, newGroup(st, i), i)
    ELSE makeGroupsVisit(n, hWalls, vWalls, st, i)

\* the loop of lines 209-224 over the cells lo .. hi - 1 in ascending order,
\* evaluated as the first half of the cells followed by the second half
RECURSIVE makeGroupsLoop(_, _, _, _, _, _)
makeGroupsLoop(n, hWalls, vWalls, st, lo, hi) ==
    IF hi <= lo THEN st
    ELSE IF hi = lo + 1 THEN makeGroupsStep(n, hWalls, vWalls, st, lo)
    ELSE LET mid == (lo + hi) \div 2
             half == makeGroupsLoop(n, hWalls, vWalls, st, lo, mid)
         \* cell lo has a group once the first half is done
         IN IF half.indexToGroup[lo] = 0 THEN half
            ELSE makeGroupsLoop(n, hWalls, vWalls, half, mid, hi)

makeGroups(n, hWalls, vWalls) ==
    LET st == makeGroupsLoop(n, hWalls, vWalls,
                             [arrays |-> <<>>, groupsSet |-> <<>>,
                              indexToGroup |-> [k \in 0..(n * n - 1) |-> 0]],
                             0, n * n)
        indexOf(g) == (CHOOSE k \in DOMAIN st.groupsSet : st.groupsSet[k] = g) - 1
    IN [groups |-> Map(st.groupsSet, LAMBDA g : st.arrays[g]),
        groupIndices |-> [i \in 0..(n * n - 1) |-> indexOf(st.indexToGroup[i])]]

(***************************************************************************)
(* Backtracking Solver: helpers                                            *)
(***************************************************************************)
pastUnfinishedGroup(cutoff, gs, c, sc) ==
    \E k \in DOMAIN gs :
        /\ getStarCount(gs[k], c) # sc
        /\ gs[k][Len(gs[k])] < cutoff

(***************************************************************************)
(* Puzzles the model is run on                                             *)
(***************************************************************************)
\* most cells of an input that are not Blank
MaxPreset == 2

Walls(n, on) == [k \in 0..(n * (n - 1) - 1) |-> k \in on]

CellSet(n) == 0..(n * n - 1)

CellArray(n, stars, marks) ==
    [i \in CellSet(n) |-> IF i \in stars THEN STAR ELSE IF i \in marks THEN X ELSE BLANK]

\* wall layouts: size, starCount, the indices of the walls that are set, the
\* number of cells up to which every preset of Stars and Marked cells is an
\* input, and further inputs (Stars, Marked cells)
Layouts ==
    { \* 4x4, groups A B B C / A A A C / A D D D / D D D D
      [size |-> 4, starCount |-> 1, presets |-> MaxPreset,
       horizontal |-> {1, 2, 5, 6, 7, 8}, vertical |-> {0, 2, 5, 6},
       \* a full grid whose Stars fit the columns and groups, not the rows;
       \* two Stars in group A, and row 1 with cell 6 as its only Blank cell
       fixtures |-> {[stars |-> {1, 3, 8, 14}, marks |-> (0..15) \ {1, 3, 8, 14}],
                     [stars |-> {0, 8}, marks |-> {4, 5, 7}]}],
      \* 4x4, four horizontal bands
      [size |-> 4, starCount |-> 1, presets |-> MaxPreset,
       horizontal |-> 0..11, vertical |-> {},
       \* a full grid whose Stars fit the rows and groups, not the columns;
       \* Marked cells with which Block-Exact-Fit confirms a partition;
       \* a full grid whose Stars fit every count and touch at the corners
       fixtures |-> {[stars |-> {0, 6, 8, 14}, marks |-> (0..15) \ {0, 6, 8, 14}],
                     [stars |-> {}, marks |-> {5, 6, 9, 10, 12, 15}],
                     [stars |-> {0, 5, 10, 15}, marks |-> (0..15) \ {0, 5, 10, 15}]}],
      \* 3x3, groups A A B / A A B / C A B
      [size |-> 3, starCount |-> 1, presets |-> MaxPreset,
       horizontal |-> {3}, vertical |-> {1, 3, 4, 5},
       \* Marked cells that leave rows 0 and 2 to two groups
       fixtures |-> {[stars |-> {}, marks |-> {0, 3, 4, 5, 6}]}],
      \* 5x5, groups A A A B B / A D B B C / D D C C C / D D D D C / D D E E C
      [size |-> 5, starCount |-> 1, presets |-> 0,
       horizontal |-> {1, 2, 4, 5, 7, 8, 12, 13, 17, 18},
       vertical |-> {2, 4, 5, 7, 9, 15, 17, 19},
       \* a Star in cell 0, which belongs to a solution
       fixtures |-> {[stars |-> {0}, marks |-> {}]}],
      \* 4x4, four horizontal bands, two Stars each
      [size |-> 4, starCount |-> 2, presets |-> 0,
       horizontal |-> 0..11, vertical |-> {},
       \* row 0 with two Blank cells left: apart (0 and 3), side by side (2 and 3)
       fixtures |-> {[stars |-> {}, marks |-> {1, 2}],
                     [stars |-> {}, marks |-> {0, 1}]}] }

RECURSIVE SubsetsUpTo(_, _)
SubsetsUpTo(S, k) ==
    IF k = 0 THEN {{}}
    ELSE SubsetsUpTo(S, k - 1)
             \cup {s \cup {a} : s \in SubsetsUpTo(S, k - 1), a \in S}

\* cell arrays with at most k cells that are not Blank
InitCells(n, k) ==
    LET small == SubsetsUpTo(CellSet(n), k)
        presets == {p \in small \X small :
                       /\ p[1] \cap p[2] = {}
                       /\ Cardinality(p[1] \cup p[2]) <= k}
    IN {CellArray(n, p[1], p[2]) : p \in presets}

\* the inputs: every layout with each of its cell arrays
Inputs(layout) ==
    InitCells(layout.size, layout.presets)
        \cup {CellArray(layout.size, f.stars, f.marks) : f \in layout.fixtures}

puzzle == <<size, starCount, horizontalWalls, verticalWalls, groups, cellIndexToGroupIndex>>

\* grid sizes of which every wall layout and every short index array is tried
SmallSizes == {2, 3}

\* 4x4 wall layouts are tried with at most MaxOpenWalls wall positions open
MaxOpenWalls == 3

\* longest index array given to partitionCells
MaxIndices == 4

\* the positions of a size x size wall array
WallSet(n) == 0..(n * (n - 1) - 1)

\* wall layouts of the Region Builder: the indices of the walls that are set
BuildLayouts ==
    UNION {{[size |-> n, horizontal |-> h, vertical |-> v] :
                h \in SUBSET WallSet(n), v \in SUBSET WallSet(n)} : n \in SmallSizes}
        \cup {[size |-> 4,
               horizontal |-> WallSet(4) \ {p[2] : p \in {q \in open : q[1] = "h"}},
               vertical |-> WallSet(4) \ {p[2] : p \in {q \in open : q[1] = "v"}}] :
                  open \in SubsetsUpTo({"h", "v"} \X WallSet(4), MaxOpenWalls)}

\* duplicate-free index arrays of at most k cells of an n x n grid
RECURSIVE IndexArrays(_, _)
IndexArrays(n, k) ==
    IF k = 0 THEN {<<>>}
    ELSE LET shorter == IndexArrays(n, k - 1)
         IN shorter
                \cup UNION {{Append(s, a) : a \in CellSet(n) \ {s[j] : j \in DOMAIN s}} :
                               s \in shorter}

(***************************************************************************)
(* Backtracking Solver: findSolution as a machine.  A frame of stack is    *)
(* one activation of findSolutionHelper: its startIndex, the loop index i  *)
(* and the snapshot `backup` taken before its pending guess.               *)
(***************************************************************************)
Top == stack[Len(stack)]

(***************************************************************************)
(* Array identity.  Arrays are numbered in the order they are created;     *)
(* refs.data is the array puzzleData.cells refers to, refs.cells the array *)
(* the closure variable `cells` of findSolution refers to, refs.ret and    *)
(* refs.res the arrays returned by the helper and by findSolution.  The    *)
(* variable work holds the content of array refs.cells, the variable cells *)
(* the content of the caller's array.                                      *)
(***************************************************************************)
\* the array puzzleData.cells refers to when findSolution is called
CallerCells == 0

\* no array
NoArray == -1

NoRefs == [data |-> CallerCells, cells |-> NoArray, ret |-> NoArray, res |-> NoArray,
           arrays |-> 1]

\* faulty variant: the same array instead of a copy
sliceSameArray(array, fresh) == array

\* Array.prototype.slice(): a new array with the same content
slice(array, fresh) == fresh

\* the content of the caller's array after `content` was written to `array`
Written(array, content) == IF array = CallerCells THEN content ELSE cells

\* findSolution lines 88-93: clone the cells, call findSolutionHelper()
Solve ==
    /\ pc = "idle"
    /\ work' = cells
    /\ guesses' = <<>>
    /\ stack' = <<[startIndex |-> 0, i |-> 0, backup |-> Undefined, backupRef |-> NoArray]>>
    /\ refs' = [refs EXCEPT !.data = slice(refs.data, refs.arrays),
                            !.cells = slice(refs.data, refs.arrays),
                            !.arrays = @ + 1]
    /\ pc' = "helper"
    /\ UNCHANGED <<puzzle, clusterInput, clusters, solved, received, cursor, callConfirmedPartitions, cells, ret, res, nextStep, error>>

\* findSolutionHelper lines 101-107: early failure check, logic, base case
EnterHelper ==
    /\ pc = "helper"
    /\ IF pastUnfinishedGroup(Top.startIndex, groups, work, starCount)
       THEN pc' = "return" /\ ret' = Undefined
       ELSE IF applyNextSteps(PuzzleData(work), 0).error # Undefined
            THEN pc' = "return" /\ ret' = Undefined
            ELSE IF isSolved(PuzzleData(work))
                 THEN pc' = "return" /\ ret' = work
                 ELSE pc' = "scan" /\ ret' = ret
    /\ refs' = [refs EXCEPT !.ret = IF pc' = "return" /\ ret' # Undefined
                                    THEN refs.cells ELSE NoArray]
    /\ UNCHANGED <<puzzle, clusterInput, clusters, solved, received, cursor, callConfirmedPartitions, cells, work, stack, guesses, res, nextStep, error>>

\* faulty variant: of the cells that are not Blank only Stars are skipped
SkipsCellStarsOnly(c, i) ==
    \/ c[i] = STAR
    \/ Truthy(Find(getNeighbouringIndices(size, i), LAMBDA neighbour : c[neighbour] = STAR))
    \/ getStarCount(groups[cellIndexToGroupIndex[i] + 1], c) = starCount
    \/ getStarCount(Rows(size)[getCoords(i, size).y + 1], c) = starCount
    \/ getStarCount(Columns(size)[getCoords(i, size).x + 1], c) = starCount

\* the tests of lines 111-117 that make the loop skip cell i
SkipsCell(c, i) ==
    \/ c[i] # BLANK
    \/ Truthy(Find(getNeighbouringIndices(size, i), LAMBDA neighbour : c[neighbour] = STAR))
    \/ getStarCount(groups[cellIndexToGroupIndex[i] + 1], c) = starCount
    \/ getStarCount(Rows(size)[getCoords(i, size).y + 1], c) = starCount
    \/ getStarCount(Columns(size)[getCoords(i, size).x + 1], c) = starCount

\* one iteration of the guess loop, lines 109-125
Scan ==
    /\ pc = "scan"
    /\ LET i == Top.i
       IN IF i >= size * size \/ pastUnfinishedGroup(i, groups, work, starCount)
          THEN /\ pc' = "return" /\ ret' = Undefined
               /\ UNCHANGED <<work, stack, guesses, refs, cells>>
          ELSE IF SkipsCell(work, i)
               THEN /\ stack' = [stack EXCEPT ![Len(stack)].i = i + 1]
                    /\ UNCHANGED <<pc, ret, work, guesses, refs, cells>>
               ELSE /\ work' = [work EXCEPT ![i] = STAR]
                    /\ cells' = Written(refs.cells, work')
                    /\ guesses' = Append(guesses, i)
                    /\ stack' = Append([stack EXCEPT
                                            ![Len(stack)].backup = work,
                                            ![Len(stack)].backupRef =
                                                slice(refs.cells, refs.arrays)],
                                       [startIndex |-> i + 1, i |-> i + 1,
                                        backup |-> Undefined, backupRef |-> NoArray])
                    /\ refs' = [refs EXCEPT !.arrays = @ + 1]
                    /\ pc' = "helper"
                    /\ ret' = ret
    /\ UNCHANGED <<puzzle, clusterInput, clusters, solved, received, cursor, callConfirmedPartitions, res, nextStep, error>>

\* lines 126-128: the recursive call returned a solution, pass it up
Propagate ==
    /\ pc = "return"
    /\ Len(stack) > 1
    /\ ret # Undefined
    /\ stack' = SubSeq(stack, 1, Len(stack) - 1)
    /\ UNCHANGED <<puzzle, clusterInput, clusters, solved, refs, received, cursor, callConfirmedPartitions, cells, pc, work, guesses, ret, res, nextStep, error>>

\* faulty variant: the guessed cell is left as the snapshot has it
markGuessForgotten(backup, i) == backup

\* lines 130-132: back to the snapshot, with the guessed cell Marked
markGuess(backup, i) == [backup EXCEPT ![i] = X]

\* lines 129-135: the guess was wrong
Backtrack ==
    /\ pc = "return"
    /\ Len(stack) > 1
    /\ ret = Undefined
    /\ LET caller == stack[Len(stack) - 1]
           restored == markGuess(caller.backup, caller.i)
       IN /\ work' = restored
          /\ refs' = [refs EXCEPT !.cells = caller.backupRef, !.data = caller.backupRef]
          /\ cells' = Written(caller.backupRef, restored)
          /\ guesses' = SubSeq(guesses, 1, Len(guesses) - 1)
          /\ IF applyNextSteps(PuzzleData(restored), 0).error # Undefined
             THEN /\ stack' = SubSeq(stack, 1, Len(stack) - 1)
                  /\ pc' = "return"
             ELSE /\ stack' = [SubSeq(stack, 1, Len(stack) - 1) EXCEPT
                                  ![Len(stack) - 1].i = caller.i + 1]
                  /\ pc' = "scan"
    /\ UNCHANGED <<puzzle, clusterInput, clusters, solved, received, cursor, callConfirmedPartitions, ret, res, nextStep, error>>

\* findSolution lines 93-96: the outermost helper returned
Finish ==
    /\ pc = "return"
    /\ Len(stack) = 1
    /\ stack' = <<>>
    /\ res' = ret
    /\ refs' = [refs EXCEPT !.data = CallerCells, !.res = refs.ret]
    /\ pc' = "done"
    /\ UNCHANGED <<puzzle, clusterInput, clusters, solved, received, cursor, callConfirmedPartitions, cells, work, guesses, ret, nextStep, error>>

(***************************************************************************)
(* The saturation loop applyNextSteps as a machine, one action per         *)
(* statement of its loop body, and a direct call of the Validator.         *)
(***************************************************************************)
\* applyNextSteps lines 142-143: work on a copy of the cells
Saturate ==
    /\ pc = "idle"
    /\ work' = cells
    /\ pc' = "loop"
    /\ UNCHANGED <<puzzle, clusterInput, clusters, solved, refs, received, cursor, callConfirmedPartitions, cells, stack, guesses, ret, res, nextStep, error>>

\* line 146: let nextStep = getNextStep(puzzleData, maxGuesses)
GetStep ==
    /\ pc = "loop"
    /\ LET call == getNextStepCall(PuzzleData(work), 0, NewConfirmedPartitions)
       IN /\ nextStep' = call.step
          /\ callConfirmedPartitions' = call.confirmedPartitions
    /\ pc' = "step"
    /\ UNCHANGED <<puzzle, clusterInput, clusters, solved, refs, received, cursor, cells, work, stack, guesses, ret, res, error>>

\* lines 147-153: apply the step in place, stop when it changes nothing or
\* when the Validator reports an error
ApplyStep ==
    /\ pc = "step"
    /\ LET newCells == applyNextStep(work, nextStep)
       IN IF newCells = Undefined
          THEN /\ pc' = "saturated"
               /\ UNCHANGED <<work, error>>
          ELSE /\ work' = newCells
               /\ error' = getSolutionError(PuzzleData(newCells))
               /\ pc' = IF HasMessage(error') THEN "saturated" ELSE "loop"
    /\ UNCHANGED <<puzzle, clusterInput, clusters, solved, refs, received, cursor, callConfirmedPartitions, cells, stack, guesses, ret, res, nextStep>>

\* getSolutionError called on the caller's cells
Validate ==
    /\ pc = "idle"
    /\ error' = getSolutionError(PuzzleData(cells))
    /\ pc' = "validated"
    /\ UNCHANGED <<puzzle, clusterInput, clusters, solved, refs, received, cursor, callConfirmedPartitions, cells, work, stack, guesses, ret, res, nextStep>>

(***************************************************************************)
(* getNextStep(puzzleData, 1) called on the caller's PuzzleData: the       *)
(* lookahead loop of lines 340-354 writes to puzzleData.cells in place.    *)
(***************************************************************************)
\* faulty variant: the trial Star is left in the cell
lookaheadRestoreSkipped(c, i) == c

\* line 345: cells[i] = Cell.BLANK
lookaheadRestore(c, i) == [c EXCEPT ![i] = BLANK]

\* lines 249-339: the rules before the lookahead
Look ==
    /\ pc = "idle"
    /\ LET call == getNextStepCall(PuzzleData(cells), 0, NewConfirmedPartitions)
       IN IF "indices" \in DOMAIN call.step
          THEN nextStep' = call.step /\ pc' = "looked"
          ELSE nextStep' = nextStep /\ pc' = "look"
    /\ cursor' = 0
    /\ UNCHANGED <<puzzle, clusterInput, clusters, solved, refs, received, callConfirmedPartitions, cells, work, stack,
                   guesses, ret, res, error>>

\* lines 341-343: the next Blank cell gets a trial Star; line 355 after the
\* last cell
LookTry ==
    /\ pc = "look"
    /\ IF cursor >= size * size
       THEN /\ nextStep' = [message |-> "Unknown"]
            /\ pc' = "looked"
            /\ UNCHANGED <<cells, cursor>>
       ELSE IF cells[cursor] # BLANK
            THEN /\ cursor' = cursor + 1
                 /\ UNCHANGED <<cells, pc, nextStep>>
            ELSE /\ cells' = [cells EXCEPT ![cursor] = STAR]
                 /\ pc' = "trial"
                 /\ UNCHANGED <<cursor, nextStep>>
    /\ UNCHANGED <<puzzle, clusterInput, clusters, solved, refs, received, callConfirmedPartitions, work, stack, guesses,
                   ret, res, error>>

\* lines 344-352: saturate with the trial Star, take it back, report the cell
\* when the trial ran into an error
LookJudge ==
    /\ pc = "trial"
    /\ cells' = lookaheadRestore(cells, cursor)
    /\ IF applyNextSteps(PuzzleData(cells), 0).error # Undefined
       THEN /\ nextStep' = [indices |-> <<cursor>>, type |-> X,
                            message |-> LookaheadMessage]
            /\ pc' = "looked"
            /\ UNCHANGED cursor
       ELSE /\ cursor' = cursor + 1
            /\ pc' = "look"
            /\ UNCHANGED nextStep
    /\ UNCHANGED <<puzzle, clusterInput, clusters, solved, refs, received, callConfirmedPartitions, work, stack, guesses,
                   ret, res, error>>

\* isSolved called on the caller's cells
Solved ==
    /\ pc = "idle"
    /\ solved' = isSolved(PuzzleData(cells))
    /\ pc' = "judged"
    /\ UNCHANGED <<puzzle, clusterInput, clusters, refs, received, cursor, callConfirmedPartitions, cells, work,
                   stack, guesses, ret, res, nextStep, error>>

\* the Region Builder run on a wall layout
Build ==
    /\ pc = "wait"
    /\ \E layout \in BuildLayouts :
           LET hw == Walls(layout.size, layout.horizontal)
               vw == Walls(layout.size, layout.vertical)
               made == makeGroups(layout.size, hw, vw)
           IN /\ size' = layout.size
              /\ horizontalWalls' = hw
              /\ verticalWalls' = vw
              /\ groups' = made.groups
              /\ cellIndexToGroupIndex' = made.groupIndices
    /\ pc' = "built"
    /\ UNCHANGED <<starCount, cells, work, stack, guesses, ret, res, nextStep, error,
                   callConfirmedPartitions, refs, received, cursor, solved,
                   clusterInput, clusters>>

\* partitionCells applied to an index array
Partition ==
    /\ pc = "wait"
    /\ \E n \in SmallSizes : \E given \in IndexArrays(n, MaxIndices) :
           /\ size' = n
           /\ clusterInput' = given
           /\ clusters' = partitionCells(n, given)
    /\ pc' = "partitioned"
    /\ UNCHANGED <<starCount, horizontalWalls, verticalWalls, groups,
                   cellIndexToGroupIndex, cells, work, stack, guesses, ret, res,
                   nextStep, error, callConfirmedPartitions, refs, received, cursor,
                   solved>>

\* the worker before a message arrives: no puzzle yet
Init ==
    /\ size = 0
    /\ starCount = 0
    /\ horizontalWalls = <<>>
    /\ verticalWalls = <<>>
    /\ groups = <<>>
    /\ cellIndexToGroupIndex = <<>>
    /\ cells = <<>>
    /\ pc = "wait"
    /\ work = <<>>
    /\ stack = <<>>
    /\ guesses = <<>>
    /\ ret = Undefined
    /\ res = Undefined
    /\ nextStep = Undefined
    /\ error = Undefined
    /\ callConfirmedPartitions = <<>>
    /\ refs = NoRefs
    /\ received = <<>>
    /\ cursor = 0
    /\ solved = FALSE
    /\ clusterInput = <<>>
    /\ clusters = <<>>

\* a PuzzleData arrives: its groups are those makeGroups builds from the
\* walls, its cells one of the inputs
Receive ==
    /\ pc = "wait"
    /\ \E layout \in Layouts : \E c \in Inputs(layout) :
           LET hw == Walls(layout.size, layout.horizontal)
               vw == Walls(layout.size, layout.vertical)
               made == makeGroups(layout.size, hw, vw)
           IN /\ size' = layout.size
              /\ starCount' = layout.starCount
              /\ horizontalWalls' = hw
              /\ verticalWalls' = vw
              /\ groups' = made.groups
              /\ cellIndexToGroupIndex' = made.groupIndices
              /\ cells' = c
              /\ received' = c
    /\ pc' = "idle"
    /\ UNCHANGED <<work, stack, guesses, ret, res, nextStep, error,
                   callConfirmedPartitions, refs, cursor, solved, clusterInput, clusters>>

(***************************************************************************)
(* A wide grid, on which the rules before Fill-Lines stay silent: 8x8 with *)
(* two Stars per row, column and group.  Only the Validator and the        *)
(* saturation loop are run on it.                                          *)
(***************************************************************************)
\* groups: rows 0-2 and rows 3-5, each split into a left and a right half,
\* and rows 6-7
WideLayout ==
    [size |-> 8, starCount |-> 2,
     horizontal |-> (16..23) \cup (40..47),
     vertical |-> {y * 7 + 3 : y \in 0..5}]

\* a Star in the lower left corner whose neighbours are Marked, and at most
\* one more Marked cell in rows 0-5
WideInputs ==
    {CellArray(8, {56}, {48, 49, 57} \cup extra) :
         extra \in {{}} \cup {{i} : i \in 0..47}}

ReceiveWide ==
    /\ pc = "wait"
    /\ \E c \in WideInputs :
           LET hw == Walls(WideLayout.size, WideLayout.horizontal)
               vw == Walls(WideLayout.size, WideLayout.vertical)
               made == makeGroups(WideLayout.size, hw, vw)
           IN /\ size' = WideLayout.size
              /\ starCount' = WideLayout.starCount
              /\ horizontalWalls' = hw
              /\ verticalWalls' = vw
              /\ groups' = made.groups
              /\ cellIndexToGroupIndex' = made.groupIndices
              /\ cells' = c
              /\ received' = c
    /\ pc' = "idle"
    /\ UNCHANGED <<work, stack, guesses, ret, res, nextStep, error,
                   callConfirmedPartitions, refs, cursor, solved, clusterInput, clusters>>

NextWide == ReceiveWide \/ Saturate \/ GetStep \/ ApplyStep \/ Validate

SpecWide == Init /\ [][NextWide]_vars

Next ==
    \/ Receive
    \/ Solve \/ EnterHelper \/ Scan \/ Propagate \/ Backtrack \/ Finish
    \/ Saturate \/ GetStep \/ ApplyStep
    \/ Validate
    \/ Look \/ LookTry \/ LookJudge
    \/ Solved
    \/ Build \/ Partition

Spec == Init /\ [][Next]_vars

(***************************************************************************)
(* The rules of the puzzle, stated on sets of cells                        *)
(***************************************************************************)
Range(s) == {s[k] : k \in DOMAIN s}

StarsOf(c) == {i \in DOMAIN c : c[i] = STAR}

BlanksOf(c) == {i \in DOMAIN c : c[i] = BLANK}

\* two different cells that touch by an edge or a corner
Adjacent(a, b) ==
    /\ a # b
    /\ Abs((a % size) - (b % size)) <= 1
    /\ Abs((a \div size) - (b \div size)) <= 1

RowSet(y) == {i \in CellSet(size) : i \div size = y}

ColumnSet(x) == {i \in CellSet(size) : i % size = x}

\* the rows, the columns and the groups, as sets of cells
Partitions ==
    {RowSet(y) : y \in 0..(size - 1)}
        \cup {ColumnSet(x) : x \in 0..(size - 1)}
        \cup {Range(groups[k]) : k \in DOMAIN groups}

\* S as the set of Stars solves the puzzle
ValidSolution(S) ==
    /\ \A a \in S : \A b \in S : ~Adjacent(a, b)
    /\ \A P \in Partitions : Cardinality(S \cap P) = starCount

\* every set of cells that holds starCount cells of each row
RowChoices ==
    LET picks == {T \in SUBSET (0..(size - 1)) : Cardinality(T) = starCount}
    IN {UNION {{y * size + x : x \in f[y]} : y \in 0..(size - 1)} :
            f \in [0..(size - 1) -> picks]}

Solutions == {S \in RowChoices : ValidSolution(S)}

\* the solutions that keep the Stars of c and avoid its Marked cells
Completions(c) == {S \in Solutions : StarsOf(c) \subseteq S /\ \A i \in S : c[i] # X}

(***************************************************************************)
(* Backtracking Solver                                                     *)
(***************************************************************************)
\* C1: whenever findSolution returns a cell array (not undefined), no Star of
\* the array has a Star among its 8 neighbours and every row, every column and
\* every group holds exactly starCount Stars.
C1_ResultIsSolved ==
    (pc = "done" /\ res # Undefined) => ValidSolution(StarsOf(res))

\* findSolution returned an array it reached through at least one guess
C1_Witness == pc = "done" /\ res # Undefined /\ Len(guesses) > 0

\* C2: for every all-Blank puzzle whose groups come from makeGroups and which
\* has a unique valid solution, findSolution returns a cell array whose Stars
\* are exactly the Stars of that solution.
C2_Complete ==
    (pc = "done" /\ StarsOf(cells) = {} /\ BlanksOf(cells) = CellSet(size)
        /\ Cardinality(Solutions) = 1)
        => (res # Undefined /\ Solutions = {StarsOf(res)})

\* C3: for every input in which two Stars are 8-adjacent, findSolution
\* returns undefined.
C3_AdjacentStarsRejected ==
    (pc = "done" /\ \E a \in StarsOf(cells) : \E b \in StarsOf(cells) : Adjacent(a, b))
        => res = Undefined

\* findSolution has returned undefined for an input with two adjacent Stars
C3_Witness ==
    /\ pc = "done"
    /\ \E a \in StarsOf(cells) : \E b \in StarsOf(cells) : Adjacent(a, b)
    /\ res = Undefined

\* a call of findSolution is running
Running == pc \in {"helper", "scan", "return"}

\* the running call as a sequence of numbers, one per frame: a frame waiting
\* for its recursive call counts 3i + 2, the top frame 3i before its checks,
\* 3i + 1 in its loop, and more than any of these once it has returned
Variant ==
    [k \in 1..Len(stack) |->
        IF k < Len(stack) THEN 3 * stack[k].i + 2
        ELSE IF pc = "return" THEN 3 * (size * size + 1)
        ELSE IF pc = "scan" THEN 3 * stack[k].i + 1
        ELSE 3 * stack[k].i]

\* a comes before b in the lexicographic order
LexLess(a, b) ==
    \E j \in 1..Len(b) :
        /\ \A m \in 1..(j - 1) : m <= Len(a) /\ a[m] = b[m]
        /\ IF j <= Len(a) THEN a[j] < b[j] ELSE j = Len(a) + 1

\* C4: for every input that no valid solution extends (keeping its Stars and
\* avoiding its Marked cells), a call of findSolution terminates and returns
\* undefined: a running call always has a frame to continue with, each of its
\* steps either moves the bounded Variant up in the lexicographic order or is
\* the return of findSolution, and that return is undefined when the input
\* has no completion.
C4_UnsolvableReturnsUndefined ==
    [][/\ Running' => stack' # <<>> /\ Len(stack') <= size * size + 1
       /\ \A k \in DOMAIN stack' : stack'[k].i <= size * size
       /\ (Running /\ Running') => LexLess(Variant, Variant')
       /\ (Running /\ ~Running') => pc' = "done"
       /\ (pc' = "done" /\ Completions(cells') = {}) => res' = Undefined]_vars

\* findSolution returned undefined for an input without completion, after
\* a search that made and withdrew a guess
C4_Witness ==
    /\ pc = "done"
    /\ Completions(cells) = {}
    /\ res = Undefined
    /\ \E i \in CellSet(size) : cells[i] = BLANK /\ work[i] = X

(***************************************************************************)
(* Deduction Engine                                                        *)
(***************************************************************************)
HasIndices(step) == "indices" \in DOMAIN step /\ "type" \in DOMAIN step

\* the step contradicts no Star of S and stars no cell outside S
AgreesWith(step, S) ==
    HasIndices(step) =>
        /\ step.type = X => \A k \in DOMAIN step.indices : step.indices[k] \notin S
        /\ step.type = STAR => \A k \in DOMAIN step.indices : step.indices[k] \in S

\* C5: for a puzzle with a unique solution and a state consistent with it
\* (every Star of the state is a solution Star, no Marked cell is one), the
\* step getNextStep returns marks no solution Star and stars only solution
\* Stars.
C5_DeductionSound ==
    (pc = "step" /\ Cardinality(Solutions) = 1 /\ Completions(work) = Solutions)
        => \A S \in Solutions : AgreesWith(nextStep, S)

\* getNextStep has returned a step of type Star in a state, reached by
\* earlier deductions, that is consistent with the unique solution
C5_Witness ==
    /\ pc = "step"
    /\ Cardinality(Solutions) = 1
    /\ Completions(work) = Solutions
    /\ work # cells
    /\ HasIndices(nextStep)
    /\ nextStep.type = STAR

(***************************************************************************)
(* Validator                                                               *)
(***************************************************************************)
\* the variable error holds the result of getSolutionError for Checked
ErrorIsCurrent ==
    \/ pc = "validated"
    \/ pc = "loop" /\ nextStep # Undefined
    \/ pc = "saturated" /\ HasMessage(error)

Checked == IF pc = "validated" THEN cells ELSE work

AdjacentStars(c) == \E a \in StarsOf(c) : \E b \in StarsOf(c) : Adjacent(a, b)

OverFull(c, P) == Cardinality(StarsOf(c) \cap P) > starCount

TooFewBlanks(c, P) ==
    starCount - Cardinality(StarsOf(c) \cap P) > Cardinality(BlanksOf(c) \cap P)

TooManyMessages ==
    {"This row contains too many stars.", "This column contains too many stars.",
     "This group contains too many stars."}

TooFewMessages ==
    {"This row contains too few blank spaces.", "This column contains too few blank spaces.",
     "This group contains too few blank spaces."}

\* C6: for every state on which getSolutionError returns an empty step (no
\* message), no two Stars are 8-adjacent and no row, column or group holds
\* more than starCount Stars.
C6_ValidatorSound ==
    (ErrorIsCurrent /\ ~HasMessage(error))
        => /\ ~AdjacentStars(Checked)
           /\ \A P \in Partitions : ~OverFull(Checked, P)

\* getSolutionError has returned the empty step for an input with a Star
C6_Witness ==
    /\ pc = "validated"
    /\ ~HasMessage(error)
    /\ StarsOf(cells) # {}

\* C7: getSolutionError reports the first violation in the order adjacency,
\* over-count, under-feasibility: with two adjacent Stars it returns the
\* adjacency step citing two adjacent Stars, even when a partition is
\* over-full; otherwise with an over-full partition it returns an over-count
\* step; and it returns an under-feasibility step exactly when neither holds
\* and some row, column or group needs more Stars than it has Blank cells.
C7_ValidatorOrder ==
    ErrorIsCurrent =>
        /\ AdjacentStars(Checked) =>
               /\ HasMessage(error)
               /\ error.message = "Stars cannot be next to each other."
               /\ Len(error.indices) = 2
               /\ {error.indices[1], error.indices[2]} \subseteq StarsOf(Checked)
               /\ Adjacent(error.indices[1], error.indices[2])
        /\ (~AdjacentStars(Checked) /\ \E P \in Partitions : OverFull(Checked, P)) =>
               /\ HasMessage(error)
               /\ error.message \in TooManyMessages
               /\ Range(error.indices) \in Partitions
               /\ OverFull(Checked, Range(error.indices))
        /\ (HasMessage(error) /\ error.message \in TooFewMessages) <=>
               /\ ~AdjacentStars(Checked)
               /\ \A P \in Partitions : ~OverFull(Checked, P)
               /\ \E P \in Partitions : TooFewBlanks(Checked, P)

\* getSolutionError has returned the adjacency step for an input whose two
\* adjacent Stars also over-fill a partition
C7_Witness ==
    /\ pc = "validated"
    /\ AdjacentStars(cells)
    /\ \E P \in Partitions : OverFull(cells, P)
    /\ HasMessage(error)
    /\ error.message = "Stars cannot be next to each other."

(***************************************************************************)
(* Rule order                                                              *)
(***************************************************************************)
\* every cell of B is Blank, touches no Star, lies in no partition that is
\* full, and no two cells of B touch
CanAllTakeStar(c, B) ==
    \A i \in B :
        /\ c[i] = BLANK
        /\ \A j \in StarsOf(c) \cup B : ~Adjacent(i, j)
        /\ \A P \in Partitions : i \in P => Cardinality(StarsOf(c) \cap P) < starCount

\* the Blank cells of P are exactly the Stars P still needs
LastSpacesFit(c, P) ==
    /\ BlanksOf(c) \cap P # {}
    /\ Cardinality(BlanksOf(c) \cap P) = starCount - Cardinality(StarsOf(c) \cap P)

LastSpacesMessages ==
    {LastSpacesMessage("group"), LastSpacesMessage("row"), LastSpacesMessage("column")}

\* C8: in every state where Last-Spaces applies to some row, column or group
\* (it has Blank cells, as many as it still needs Stars, and they can all take
\* a Star), getNextStep returns a Last-Spaces step: type Star on the Blank
\* cells of such a partition, whatever other rule would also apply.
C8_LastSpacesFirst ==
    (pc = "step" /\ \E P \in Partitions :
                        LastSpacesFit(work, P) /\ CanAllTakeStar(work, BlanksOf(work) \cap P))
        => /\ HasIndices(nextStep)
           /\ nextStep.type = STAR
           /\ nextStep.message \in LastSpacesMessages
           /\ \E P \in Partitions :
                  LastSpacesFit(work, P) /\ Range(nextStep.indices) = BlanksOf(work) \cap P

\* getNextStep has returned the Last-Spaces step in a state where
\* Block-Exact-Fit produces a step too
C8_Witness ==
    /\ pc = "step"
    /\ \E P \in Partitions :
           LastSpacesFit(work, P) /\ CanAllTakeStar(work, BlanksOf(work) \cap P)
    /\ blockRule(PuzzleData(work), NewConfirmedPartitions).step # Undefined
    /\ nextStep.message \in LastSpacesMessages

\* what each rule produces, in the order: Last-Spaces, Adjacency-Exclusion,
\* No-Stars-Left, Isolated-Group-Exclusion, No-Crowding, Block-Exact-Fit
\* (groups, rows, columns), Fill-Lines, Block-Exact-Fit (2-row windows,
\* 2-column windows), Confirmed-Block-Exclusion
RuleSteps(pd) ==
    LET block == blockRule(pd, NewConfirmedPartitions)
        windowBlock == windowBlockRule(pd, block.confirmedPartitions)
    IN << lastSpacesRule(pd), adjacencyRule(pd), noStarsLeftRule(pd),
          isolatedGroupRule(pd), noCrowdingRule(pd), block.step, fillLinesRule(pd),
          windowBlock.step, confirmedBlockRule(pd, windowBlock.confirmedPartitions) >>

\* the same with Block-Exact-Fit over the windows moved before Fill-Lines
RuleStepsWindowsBeforeFillLines(pd) ==
    LET r == RuleSteps(pd)
    IN << r[1], r[2], r[3], r[4], r[5], r[6], r[8], r[7], r[9] >>

FirstStep(steps) ==
    IF FirstDefined(steps) = Undefined THEN [message |-> "Unknown"] ELSE FirstDefined(steps)

\* C9, as stated: getNextStep returns the step of the first rule that produces
\* one in the order Last-Spaces, Adjacency-Exclusion, No-Stars-Left,
\* Isolated-Group-Exclusion, No-Crowding, Block-Exact-Fit (groups, rows,
\* columns, 2-row windows, 2-column windows), Fill-Lines,
\* Confirmed-Block-Exclusion.
C9_OrderAsStated ==
    pc = "step" => nextStep = FirstStep(RuleStepsWindowsBeforeFillLines(PuzzleData(work)))

\* C9, amended: getNextStep returns the step of the first rule that produces
\* one in the order Last-Spaces, Adjacency-Exclusion, No-Stars-Left,
\* Isolated-Group-Exclusion, No-Crowding, Block-Exact-Fit (groups, rows,
\* columns), Fill-Lines, Block-Exact-Fit (2-row windows, 2-column windows),
\* Confirmed-Block-Exclusion; where both Fill-Lines and Block-Exact-Fit on a
\* window produce a step and no earlier rule does, the Fill-Lines step is
\* returned.
C9_RuleOrder ==
    pc = "step" => nextStep = FirstStep(RuleSteps(PuzzleData(work)))

\* getNextStep has returned the Fill-Lines step in a state where
\* Block-Exact-Fit on a window produces a step too
C9_Witness ==
    /\ pc = "step"
    /\ LET r == RuleSteps(PuzzleData(work))
       IN /\ \A k \in 1..6 : r[k] = Undefined
          /\ r[7] # Undefined
          /\ r[8] # Undefined
          /\ r[7] # r[8]
          /\ nextStep = r[7]

C11_PrivateClone ==
    [][pc' \in {"helper", "scan", "return", "done"}
          => /\ cells' = cells
             /\ pc' = "done"
                    => /\ cells' = received
                       /\ refs'.data = CallerCells
                       /\ res' # Undefined => refs'.res \notin {CallerCells, NoArray}]_vars

\* findSolution returned a solution after a search with guesses
C11_Witness == pc = "done" /\ res # Undefined /\ refs.arrays > 2 /\ res # cells

(***************************************************************************)
(* C12: getNextStep and getSolutionError are read-only: when either has    *)
(* returned, every cell has the value it arrived with and puzzleData.cells *)
(* is the caller's array; with the lookahead enabled too.                  *)
(***************************************************************************)
C12_ReadOnly ==
    pc \in {"looked", "validated", "step"}
        => cells = received /\ refs.data = CallerCells

\* the lookahead put a trial Star in a cell, found the error and returned
\* that cell, which is Blank again
C12_Witness ==
    /\ pc = "looked"
    /\ HasMessage(nextStep) /\ nextStep.message = LookaheadMessage
    /\ cells[cursor] = BLANK

(***************************************************************************)
(* C13: isSolved is true exactly when no Star has a Star among its 8       *)
(* neighbours and every row, column and group holds exactly starCount      *)
(* Stars; stated for the caller's array and for the array the solver       *)
(* tests, in every state.                                                  *)
(***************************************************************************)
C13_IsSolvedExact ==
    /\ pc = "judged" => (solved <=> ValidSolution(StarsOf(cells)))
    /\ pc \in {"helper", "scan", "return", "done"}
           => (isSolved(PuzzleData(work)) <=> ValidSolution(StarsOf(work)))

\* isSolved returned false for an array whose counts are all right, with a
\* Star in cell 0 and a Star next to it
C13_Witness ==
    /\ pc = "judged"
    /\ cells[0] = STAR
    /\ \E j \in StarsOf(cells) : Adjacent(0, j)
    /\ \A P \in Partitions : Cardinality(StarsOf(cells) \cap P) = starCount
    /\ ~solved

(***************************************************************************)
(* Region Builder                                                          *)
(***************************************************************************)
\* a and b lie in one group
SameGroup(a, b) ==
    \E g \in DOMAIN groups : Includes(groups[g], a) /\ Includes(groups[g], b)

\* b is the right or the lower neighbour of a and no wall lies between them
Open(a, b) ==
    \/ /\ b = a + 1
       /\ a % size # size - 1
       /\ ~verticalWalls[(a \div size) * (size - 1) + (a % size)]
    \/ /\ b = a + size
       /\ b < size * size
       /\ ~horizontalWalls[a]

Linked(a, b) == Open(a, b) \/ Open(b, a)

\* the cells reached from S by steps between linked cells
RECURSIVE Grow(_)
Grow(S) ==
    LET T == S \cup {b \in CellSet(size) : \E a \in S : Linked(a, b)}
    IN IF T = S THEN S ELSE Grow(T)

\* C14: the groups makeGroups returns hold every cell index exactly once,
\* and groupIndices[i] is the position of the group that holds i.
C14_GroupsPartition ==
    pc \in {"built", "idle"}
        => /\ Len(Flat(groups)) = size * size
           /\ Range(Flat(groups)) = CellSet(size)
           /\ DOMAIN cellIndexToGroupIndex = CellSet(size)
           /\ \A i \in CellSet(size) :
                  /\ cellIndexToGroupIndex[i] + 1 \in DOMAIN groups
                  /\ Includes(groups[cellIndexToGroupIndex[i] + 1], i)

\* makeGroups merged two groups: a group lists a cell after a higher one
C14_Witness ==
    /\ pc = "built"
    /\ Len(groups) > 1
    /\ \E g \in DOMAIN groups : \E k \in 1..(Len(groups[g]) - 1) :
           groups[g][k] > groups[g][k + 1]

\* C15: two cells are in one group exactly when a path of horizontally or
\* vertically adjacent cells that crosses no wall connects them.
C15_GroupsAreComponents ==
    pc \in {"built", "idle"}
        => \A a \in CellSet(size) :
               LET component == Grow({a})
               IN \A b \in CellSet(size) : SameGroup(a, b) <=> b \in component

\* a group goes around a wall: two cells with a wall between them are in
\* one group, and there is more than one group
C15_Witness ==
    /\ pc = "built"
    /\ Len(groups) > 1
    /\ \E a \in CellSet(size) :
           /\ a % size # size - 1
           /\ verticalWalls[(a \div size) * (size - 1) + (a % size)]
           /\ SameGroup(a, a + 1)

(***************************************************************************)
(* Partitioner                                                             *)
(***************************************************************************)
\* the largest number of cells of S no two of which touch
Independence(S) ==
    LET free == {T \in SUBSET S : \A a \in T : \A b \in T : ~Adjacent(a, b)}
    IN CHOOSE m \in 0..Cardinality(S) :
           /\ \E T \in free : Cardinality(T) = m
           /\ \A T \in free : Cardinality(T) <= m

\* C16: any two cells of one cluster differ by at most 1 in x and in y, and
\* the clusters hold every input index exactly once and no other index.
C16_ClustersFit ==
    pc = "partitioned"
        => /\ \A k \in DOMAIN clusters :
                  \A a \in Range(clusters[k]) : \A b \in Range(clusters[k]) :
                      /\ Abs((a % size) - (b % size)) <= 1
                      /\ Abs((a \div size) - (b \div size)) <= 1
           /\ Len(Flat(clusters)) = Len(clusterInput)
           /\ Range(Flat(clusters)) = Range(clusterInput)

\* a cell joined an existing cluster and another cell opened a new one
C16_Witness ==
    /\ pc = "partitioned"
    /\ Len(clusters) > 1
    /\ \E k \in DOMAIN clusters : Len(clusters[k]) > 1

\* C17: partitionCells returns at least as many clusters as the largest
\* number of pairwise non-adjacent cells that can be chosen from its input.
C17_NeverTooFewClusters ==
    pc = "partitioned" => Len(clusters) >= Independence(Range(clusterInput))

\* the greedy pass returned more clusters than cells can be chosen
C17_Witness ==
    /\ pc = "partitioned"
    /\ Len(clusters) > Independence(Range(clusterInput))

(***************************************************************************)
(* Backtracking Solver: saturation, guesses, early abort                   *)
(***************************************************************************)
\* C18: when findSolution is at its success check or in its guess scan, the
\* working array holds everything the rules derive: getNextStep on it
\* returns a step with no indices.
C18_SaturationCommitted ==
    (pc = "scan" \/ (pc = "return" /\ ret # Undefined))
        => ~HasIndices(getNextStep(PuzzleData(work), 0))

\* no two Stars of c touch
NoTouchingStars(c) == \A a \in StarsOf(c) : \A b \in StarsOf(c) : ~Adjacent(a, b)

\* C19: from an input without touching Stars, findSolution guesses a Star
\* only on a Blank cell that has no Star among its 8 neighbours and whose
\* row, column and group hold fewer than starCount Stars; the working
\* array never holds two touching Stars.
C19_GuessEligible ==
    [][(NoTouchingStars(received) /\ pc = "scan" /\ pc' = "helper")
          => LET i == guesses'[Len(guesses')]
             IN /\ work[i] = BLANK
                /\ \A j \in StarsOf(work) : ~Adjacent(i, j)
                /\ \A P \in Partitions :
                       i \in P => Cardinality(StarsOf(work) \cap P) < starCount
                /\ NoTouchingStars(work')]_vars

\* the cutoffs findSolutionHelper hands to pastUnfinishedGroup in this state:
\* startIndex on entry (line 101), the loop index in the guess scan (line 110)
Cutoffs ==
    IF pc = "helper" THEN {Top.startIndex}
    ELSE IF pc = "scan" /\ Top.i < size * size THEN {Top.i}
    ELSE {}

\* C20: the early-abort test at a cursor fires only when some group has all
\* of its members below the cursor and a Star count other than starCount,
\* whatever order makeGroups lists the members in.
C20_AbortOnlyBehindCursor ==
    \A cutoff \in Cutoffs :
        pastUnfinishedGroup(cutoff, groups, work, starCount)
            => \E k \in DOMAIN groups :
                   /\ getStarCount(groups[k], work) # starCount
                   /\ \A m \in DOMAIN groups[k] : groups[k][m] < cutoff

\* the frames of findSolutionHelper that wait for a recursive call to return
Pending(st) == 1..(Len(st) - 1)

\* C21: a guess at cell i takes a snapshot equal to the working array and
\* pushes i; the snapshot and the cursor of a waiting frame do not change
\* while it waits; and when the recursion below the guess fails, the working
\* array becomes the snapshot with cell i Marked and the guess stack is the
\* one from before the guess (the cursors of the frames still waiting).
C21_BacktrackRestores ==
    [][/\ (pc = "scan" /\ pc' = "helper")
           => /\ stack'[Len(stack)].backup = work
              /\ stack'[Len(stack)].i = Top.i
              /\ work[Top.i] = BLANK
              /\ guesses = [k \in Pending(stack) |-> stack[k].i]
              /\ guesses' = Append(guesses, Top.i)
       /\ \A k \in Pending(stack) \cap Pending(stack') :
              /\ stack'[k].backup = stack[k].backup
              /\ stack'[k].i = stack[k].i
       /\ (pc = "return" /\ Len(stack) > 1 /\ ret = Undefined)
           => LET guess == stack[Len(stack) - 1]
              IN /\ work' = [c \in DOMAIN work |->
                                IF c = guess.i THEN X ELSE guess.backup[c]]
                 /\ guesses' = [k \in Pending(SubSeq(stack, 1, Len(stack) - 1))
                                    |-> stack[k].i]]_vars

\* a guess has failed below an earlier guess that is still open, and the
\* failed branch had Marked a further cell by a failed guess of its own
C21_Witness ==
    /\ pc = "scan"
    /\ Len(stack) = 2
    /\ Len(guesses) = 1
    /\ \E c \in DOMAIN work : work[c] = X /\ stack[1].backup[c] = BLANK

(***************************************************************************)
(* Deduction Engine: the steps getNextStep returns                         *)
(***************************************************************************)
\* the variable nextStep holds the result of getNextStep for Stepped
StepIsCurrent == pc = "step" \/ pc = "looked"

Stepped == IF pc = "looked" THEN cells ELSE work

FillLinesWindows ==
    Flat(Map(range(1, size, 1), LAMBDA lineCount :
        Flat(Map(range(0, size - lineCount + 1, 1), LAMBDA start :
            << [lines |-> Slice(Rows(size), start, start + lineCount), name |-> "row"],
               [lines |-> Slice(Columns(size), start, start + lineCount), name |-> "column"]
            >>))))

\* the groups (as indices into groups) that hold a cell of S
GroupsOn(S) == {k \in DOMAIN groups : Range(groups[k]) \cap S # {}}

FillLinesMessages ==
    {FillLinesMessage(name, lineCount) : name \in {"row", "column"}, lineCount \in 1..2}

\* the first window of the loop for which the rule has a step
FiringWindow(c) ==
    LET fires(k) == processGroupsFillLinesRule(PuzzleData(c), FillLinesWindows[k].lines,
                                               FillLinesWindows[k].name) # Undefined
    IN FillLinesWindows[CHOOSE k \in DOMAIN FillLinesWindows :
                            fires(k) /\ \A j \in 1..(k - 1) : ~fires(j)]

\* C23: Fill-Lines returns a step for a window of N adjacent rows or columns
\* only when the cells of the window that are not Marked lie in exactly N
\* groups; the step then has type Marked and its indices are exactly the
\* cells of those groups that are not Marked and lie outside the window.
C23_FillLinesExact ==
    (pc = "step" /\ HasMessage(nextStep) /\ nextStep.message \in FillLinesMessages)
        => LET w == FiringWindow(work)
               inside == Range(Flat(w.lines))
               open == {i \in inside : work[i] # X}
           IN /\ nextStep = processGroupsFillLinesRule(PuzzleData(work), w.lines, w.name)
              /\ Cardinality(GroupsOn(open)) = Len(w.lines)
              /\ nextStep.type = X
              /\ Range(nextStep.indices) =
                     {i \in UNION {Range(groups[k]) : k \in GroupsOn(open)} :
                          work[i] # X /\ i \notin inside}

\* getNextStep has returned the Fill-Lines step of a window of two lines
C23_Witness ==
    /\ pc = "step"
    /\ HasMessage(nextStep)
    /\ nextStep.message \in FillLinesMessages
    /\ Len(FiringWindow(work).lines) = 2

\* getNextStep came as far as its last call of processConfirmedBlockRule,
\* the one on the groups (line 335): no earlier rule had a step
ReachedGroupExclusion ==
    /\ pc = "step"
    /\ HasMessage(nextStep)
    /\ nextStep.message \in {"Unknown", ConfirmedBlockMessage("group", TRUE)}

\* the Blank cells of group k outside the confirmed cluster q, when the group
\* needs exactly one more Star and wholly contains the cluster; {} otherwise
ToExclude(k, q) ==
    LET inGroup == Range(groups[k])
        cluster == Range(callConfirmedPartitions[q])
    IN IF /\ starCount - Cardinality(StarsOf(work) \cap inGroup) = 1
          /\ cluster \subseteq inGroup
       THEN (BlanksOf(work) \cap inGroup) \ cluster
       ELSE {}

\* C24: when a group needs exactly one more Star and wholly contains a cluster
\* that Block-Exact-Fit confirmed in the same call, Confirmed-Block-Exclusion
\* returns a step that Marks every Blank cell of such a group outside the
\* cluster.
C24_SingleGroupExclusion ==
    (/\ ReachedGroupExclusion
     /\ \E k \in DOMAIN groups : \E q \in DOMAIN callConfirmedPartitions :
            ToExclude(k, q) # {})
        => /\ HasIndices(nextStep)
           /\ nextStep.type = X
           /\ \E k \in DOMAIN groups : \E q \in DOMAIN callConfirmedPartitions :
                  ToExclude(k, q) # {} /\ Range(nextStep.indices) = ToExclude(k, q)

RowSets == {RowSet(y) : y \in 0..(size - 1)}

GroupSets == {Range(groups[k]) : k \in DOMAIN groups}

\* Last-Spaces applies to partition P of the working array
LastSpacesOn(P) ==
    LastSpacesFit(work, P) /\ CanAllTakeStar(work, BlanksOf(work) \cap P)

\* No-Stars-Left applies to partition P of the working array
NoStarsLeftOn(P) ==
    /\ Cardinality(StarsOf(work) \cap P) = starCount
    /\ BlanksOf(work) \cap P # {}

NoStarsLeftMessages ==
    {NoStarsLeftMessage("group"), NoStarsLeftMessage("row"), NoStarsLeftMessage("column")}

\* Last-Spaces applies to a row and to a group with different Blank cells
LastSpacesRowAndGroup ==
    \E R \in RowSets : \E G \in GroupSets :
        /\ LastSpacesOn(R) /\ LastSpacesOn(G)
        /\ BlanksOf(work) \cap R # BlanksOf(work) \cap G

\* getNextStep came to No-Stars-Left, which applies to a row and to a group
\* with different Blank cells
NoStarsLeftRowAndGroup ==
    /\ HasMessage(nextStep)
    /\ nextStep.message \in NoStarsLeftMessages
    /\ \E R \in RowSets : \E G \in GroupSets :
           /\ NoStarsLeftOn(R) /\ NoStarsLeftOn(G)
           /\ BlanksOf(work) \cap R # BlanksOf(work) \cap G

\* C25 as stated: rows are examined before groups; where Last-Spaces or
\* No-Stars-Left applies both to a row and to a group with different Blank
\* cells, the returned step is the row's.
C25_RowsFirst ==
    pc = "step"
        => /\ LastSpacesRowAndGroup
               => /\ nextStep.message = LastSpacesMessage("row")
                  /\ \E R \in RowSets :
                         LastSpacesOn(R) /\ Range(nextStep.indices) = BlanksOf(work) \cap R
           /\ NoStarsLeftRowAndGroup
               => /\ nextStep.message = NoStarsLeftMessage("row")
                  /\ \E R \in RowSets :
                         NoStarsLeftOn(R) /\ Range(nextStep.indices) = BlanksOf(work) \cap R

\* C25: groups are examined first, then rows, then columns; where Last-Spaces
\* or No-Stars-Left applies both to a row and to a group with different Blank
\* cells, the returned step is the group's.
C25_GroupsFirst ==
    pc = "step"
        => /\ LastSpacesRowAndGroup
               => /\ nextStep.message = LastSpacesMessage("group")
                  /\ \E G \in GroupSets :
                         LastSpacesOn(G) /\ Range(nextStep.indices) = BlanksOf(work) \cap G
           /\ NoStarsLeftRowAndGroup
               => /\ nextStep.message = NoStarsLeftMessage("group")
                  /\ \E G \in GroupSets :
                         NoStarsLeftOn(G) /\ Range(nextStep.indices) = BlanksOf(work) \cap G

\* getNextStep has answered in a state where Last-Spaces applies to a row
\* and to a group with different Blank cells
C25_Witness == pc = "step" /\ LastSpacesRowAndGroup

(***************************************************************************)
(* Partitioner: maximal clusters                                           *)
(***************************************************************************)
\* cells a and b differ by at most 1 in x and in y
Near(a, b) ==
    /\ Abs((a % size) - (b % size)) <= 1
    /\ Abs((a \div size) - (b \div size)) <= 1

\* the place of cell i in the input of partitionCells
Place(i) == CHOOSE p \in DOMAIN clusterInput : clusterInput[p] = i

\* input cells outside cluster k that are within 1 of every member of it
CouldJoin(k) ==
    {i \in Range(clusterInput) \ Range(clusters[k]) :
         \A m \in Range(clusters[k]) : Near(i, m)}

\* C26 as stated: every cluster is maximal, no input cell outside it is
\* within 1 in x and in y of every member of it.
C26_ClustersMaximal ==
    pc = "partitioned" => \A k \in DOMAIN clusters : CouldJoin(k) = {}

\* C26: every cell lies in the first cluster it fitted into when its turn
\* came: each cluster opened before the cell's own held, at that moment, a
\* member that is not within 1 in x and in y of the cell.
C26_FirstFit ==
    pc = "partitioned"
        => \A k \in DOMAIN clusters : \A i \in Range(clusters[k]) :
               \A j \in 1..(k - 1) :
                   \E m \in Range(clusters[j]) : Place(m) < Place(i) /\ ~Near(i, m)

\* a cell that came after a cluster was complete is within 1 of every member
\* of that cluster and sits in an earlier cluster
C26_Witness ==
    /\ pc = "partitioned"
    /\ \E k \in DOMAIN clusters : \E j \in 1..(k - 1) :
           CouldJoin(k) \cap Range(clusters[j]) # {}

(***************************************************************************)
(* Deduction Engine: placed Stars                                          *)
(***************************************************************************)
\* C27: in a state on which getSolutionError returns an empty step, the step
\* getNextStep returns targets no cell that holds a Star.
C27_StarsNeverOverwritten ==
    (/\ pc = "step"
     /\ HasIndices(nextStep)
     /\ ~HasMessage(getSolutionError(PuzzleData(work))))
        => \A i \in Range(nextStep.indices) : work[i] # STAR

(***************************************************************************)
(* Deduction Engine: the saturation loop terminates                        *)
(***************************************************************************)
\* two for a Blank cell, one for a Star, none for a Marked cell
Potential(c) == 2 * Cardinality(BlanksOf(c)) + Cardinality(StarsOf(c))

\* the loop of applyNextSteps applies the step it was given
Applies == pc = "step" /\ applyNextStep(work, nextStep) # Undefined

\* C28: a step with indices changes at least one cell when applied, leaves
\* every Marked cell Marked and turns no Star or Marked cell Blank; the
\* potential, at most 2 * size * size, drops with every step applied, so the
\* loop of applyNextSteps applies at most 2 * size * size steps.
C28_SaturationTerminates ==
    [][Applies =>
          /\ work' # work
          /\ \A i \in DOMAIN work :
                 /\ work[i] = X => work'[i] = X
                 /\ work[i] # BLANK => work'[i] # BLANK
          /\ Potential(work') < Potential(work)
          /\ Potential(work) <= 2 * size * size]_vars

\* two steps were applied in a row, the second one placed a Star
C28_Witness ==
    /\ pc = "loop"
    /\ Potential(work) + 2 <= Potential(cells)
    /\ \E i \in DOMAIN work : work[i] = STAR /\ cells[i] = BLANK
    /\ \E i \in DOMAIN work : work[i] = X /\ cells[i] = BLANK

(***************************************************************************)
(* Backtracking Solver: the result extends the input                       *)
(***************************************************************************)
\* C29: in a cell array returned by findSolution every cell that is a Star
\* in the input is a Star, and every cell that is Marked in the input is
\* Marked.
C29_ResultExtendsInput ==
    (pc = "done" /\ res # Undefined)
        => \A i \in DOMAIN received :
               /\ received[i] = STAR => res[i] = STAR
               /\ received[i] = X => res[i] = X

\* a result for an input with a Star and a Marked cell, found by guessing
C29_Witness ==
    /\ pc = "done"
    /\ res # Undefined
    /\ \E i \in DOMAIN received : received[i] = STAR
    /\ \E i \in DOMAIN received : received[i] = X
    /\ Len(guesses) > 0
    /\ res # received

(***************************************************************************)
(* Validator and isSolved                                                  *)
(***************************************************************************)
\* the cell array with every Blank cell Marked
Filled(c) == [i \in DOMAIN c |-> IF c[i] = BLANK THEN X ELSE c[i]]

\* the cell arrays of a state: the caller's, the working copy, and both
\* with their Blank cells Marked
Grids ==
    IF cells = <<>> THEN {}
    ELSE LET held == {cells} \cup (IF work = <<>> THEN {} ELSE {work})
         IN held \cup {Filled(c) : c \in held}

\* C30: isSolved implies that getSolutionError returns the empty step, and
\* on a state with no Blank cell getSolutionError returns the empty step
\* exactly when isSolved holds.
C30_SolvedAgreesWithValidator ==
    \A c \in Grids :
        /\ isSolved(PuzzleData(c)) => getSolutionError(PuzzleData(c)) = Undefined
        /\ BlanksOf(c) = {} =>
               (getSolutionError(PuzzleData(c)) = Undefined <=> isSolved(PuzzleData(c)))

\* the search holds a full grid with Stars that is no solution, and its
\* caller's grid still has Blank cells
C30_Witness ==
    /\ work # <<>>
    /\ BlanksOf(work) = {}
    /\ StarsOf(work) # {}
    /\ BlanksOf(received) # {}
    /\ ~isSolved(PuzzleData(work))
    /\ HasMessage(getSolutionError(PuzzleData(work)))

====
